---------------------------- MODULE Spec2Model ----------------------------
(***************************************************************************)
(* A model of karo, a one-dimensional discrete-event particle simulator:   *)
(* the Simulation main loop, its OrderedLinkedList update queue, the Track *)
(* (a BoundSafeList of cells), Events, Particles and Walkers with their    *)
(* stepping rules, and the Collider.                                       *)
(*                                                                         *)
(* Times are modelled as naturals; float('inf') is the value Inf, which    *)
(* absorbs addition.  Objects are named by strings; the name is the        *)
(* object's identity (Python `is`).                                        *)
(***************************************************************************)
EXTENDS Integers, Sequences, FiniteSets, TLC

(***************************************************************************)
(* Bounds of the model.                                                    *)
(***************************************************************************)
TrackLen == 3       \* L, the length of the track
MaxRuns == 2        \* number of run calls in one behaviour
MaxDelay == 2       \* largest remaining_time of a user Event

(***************************************************************************)
(* Program constants.                                                      *)
(***************************************************************************)
\* float('inf'): above every finite value of the model
Tolerance == 2                      \* 1e-10, in the unit of time of SpecReport
Offset == 3                         \* 1e-5, the offset of a TimeBasedReporter
NoDt == 0                           \* dt=None
Inf == 2000000000
\* the literal 1e10 of Walker.update, scaled into the integers of the checker:
\* finite, and above every time a behaviour of the model reaches
StepThreshold == 1000000000

(***************************************************************************)
(* The objects of one behaviour.                                           *)
(***************************************************************************)
UserEvents == {"E1", "E2"}          \* Event(mark, remaining_time)
UnloadSlots == <<"U1", "U2">>      \* Event(x.unload), made by sim.unload / kickOff / ...
Walkers == {"W1", "W2"}             \* Walker subclasses, one stepping rule each
Boundaries == {"B1"}                \* TrackEnd
FiniteLives == {"F1"}               \* FiniteLife(lifetime)
Reporters == {"R"}                  \* TimeBasedReporter(dt)
UnloadEvents == {UnloadSlots[i] : i \in 1..Len(UnloadSlots)}
Events == UserEvents \cup UnloadEvents
Particles == Walkers \cup Boundaries
Objects == Events \cup Particles \cup FiniteLives \cup Reporters
NoObject == "none"
Composites == {"M1"}                \* MultiHeadParticle(Heads)
Heads == <<"W1", "W2">>

Rules == {"careful", "transparent", "pushy_soft", "pushy_hard", "pushy_train"}

(***************************************************************************)
(* Classes and the subclass relation (isinstance).                         *)
(***************************************************************************)
ClassOf(x) ==
    IF x \in Walkers THEN "Walker"
    ELSE IF x \in Boundaries THEN "TrackEnd"
    ELSE IF x \in Events THEN "Event"
    ELSE IF x \in Reporters THEN "TimeBasedReporter"
    ELSE "FiniteLife"

IsA(cls, type) ==
    \/ cls = type
    \/ cls = "Walker" /\ type = "Particle"
    \/ cls = "TrackEnd" /\ type \in {"Boundary", "Particle"}
    \/ cls = "Boundary" /\ type = "Particle"

IsInstance(x, type) == IsA(ClassOf(x), type)
IsReportable(x) == x \in Particles
IsUpdateable(x) == x \in Objects

(***************************************************************************)
(* Arithmetic with float('inf').                                           *)
(***************************************************************************)
Plus(a, b) == IF a >= Inf \/ b >= Inf THEN Inf ELSE a + b
Minus(a, b) == IF a >= Inf THEN Inf ELSE a - b

(***************************************************************************)
(* Sequence helpers.                                                       *)
(***************************************************************************)
RemoveAt(q, i) == SubSeq(q, 1, i - 1) \o SubSeq(q, i + 1, Len(q))
InsertAt(q, i, e) == SubSeq(q, 1, i - 1) \o <<e>> \o SubSeq(q, i, Len(q))
Contains(q, x) == \E i \in 1..Len(q) : q[i] = x
FirstIndex(q, x) == CHOOSE i \in 1..Len(q) : q[i] = x /\ \A j \in 1..(i - 1) : q[j] # x

(***************************************************************************)
(* OrderedLinkedList: the list of nodes after the head, first node first.  *)
(* A node is [t |-> time, data |-> object].                                *)
(***************************************************************************)
\* the number of nodes the search of lastNodeBefore walks past from the head:
\* it stops in front of the first node whose time is not smaller than t
LastNodeBefore(q, t) ==
    IF \E i \in 1..Len(q) : ~(q[i].t < t)
    THEN (CHOOSE i \in 1..Len(q) : ~(q[i].t < t) /\ \A j \in 1..(i - 1) : q[j].t < t) - 1
    ELSE Len(q)

\* insert that puts the new node right behind the head
OLLInsertFront(q, t, data) == InsertAt(q, 1, [t |-> t, data |-> data])

OLLInsert(q, t, data) == InsertAt(q, LastNodeBefore(q, t) + 1, [t |-> t, data |-> data])

OLLHasData(q, data) == \E i \in 1..Len(q) : q[i].data = data

\* payloads are objects: Twins are two distinct objects that compare equal (==)
Twins == {"d1", "d2"}
ValueOf(data) == IF data \in Twins THEN "twin" ELSE data

\* removeData that compares with == instead of is
OLLRemoveDataEqual(q, data) ==
    IF \E i \in 1..Len(q) : ValueOf(q[i].data) = ValueOf(data)
    THEN RemoveAt(q, CHOOSE i \in 1..Len(q) :
                        ValueOf(q[i].data) = ValueOf(data)
                        /\ \A j \in 1..(i - 1) : ValueOf(q[j].data) # ValueOf(data))
    ELSE q

\* removeData: drops the first node holding data; the caller handles ValueError
OLLRemoveData(q, data) ==
    IF OLLHasData(q, data)
    THEN RemoveAt(q, CHOOSE i \in 1..Len(q) :
                        q[i].data = data /\ \A j \in 1..(i - 1) : q[j].data # data)
    ELSE q

RECURSIVE OLLRemoveAllData(_, _)
OLLRemoveAllData(q, data) ==
    IF OLLHasData(q, data) THEN OLLRemoveAllData(OLLRemoveData(q, data), data) ELSE q

CountData(q, data) == Cardinality({i \in 1..Len(q) : q[i].data = data})

\* lastNodeBefore(t, startNode): the search starts at node number start (0 is the head)
RECURSIVE LastNodeBeforeFrom(_, _, _)
LastNodeBeforeFrom(q, t, start) ==
    IF start < Len(q) /\ q[start + 1].t < t THEN LastNodeBeforeFrom(q, t, start + 1) ELSE start

\* what a method of the list leaves: the list, the exception raised, the value returned
Left(q, e, ret) == [q |-> q, exc |-> e, ret |-> ret]

\* pop(): checkNotEmpty, then unlink and return the first node
OLLPop(q) ==
    IF q = <<>> THEN Left(q, "EmptyList", <<>>) ELSE Left(Tail(q), "none", <<q[1].t, q[1].data>>)

\* movet(dt)
OLLMovet(q, d) == [i \in 1..Len(q) |-> [q[i] EXCEPT !.t = @ + d]]

\* tmax of remove(t) when only t is given
NoTmax == -1000

\* remove(t, tmax=None)
OLLRemove(q, t, tmax) ==
    LET tnode == LastNodeBefore(q, t)
        tmaxnode == IF tmax = NoTmax THEN tnode + 1 ELSE LastNodeBeforeFrom(q, tmax, tnode)
    IN IF tmax = NoTmax /\ (tnode + 1 > Len(q) \/ q[tnode + 1].t # t)
       THEN Left(q, "RuntimeError", <<>>)
       ELSE Left(SubSeq(q, 1, tnode) \o SubSeq(q, tmaxnode + 1, Len(q)), "none", <<>>)

\* removeData(data) with its ValueError
OLLRemoveDataRaising(q, data) ==
    Left(OLLRemoveData(q, data), IF OLLHasData(q, data) THEN "none" ELSE "ValueError", <<>>)


(***************************************************************************)
(* The program state.                                                      *)
(*   time, nextUpdates, track, reportables, out, nextActions are the       *)
(*   attributes of Simulation, Reporter and Collider; position, direction, *)
(*   untilStep, countdown, lifetime, lastUpdate, target are the objects'   *)
(*   attributes; steppingrule and registry are fixed at construction.      *)
(*   Tend and running are the locals T and running of Simulation.run, pc   *)
(*   tells whether the caller is inside run.  exc is the exception the     *)
(*   last call raised to its caller ("none" if it returned).               *)
(*   The remaining variables observe the execution: fireCount / fireTime   *)
(*   (invocations of the user Events' actions), lastUpd (the last loop     *)
(*   iteration of run), writes (indices given to Track.__setitem__ by the  *)
(*   last call), trace (rule evaluations and action executions of the last *)
(*   update), loadTime / delay (arguments of the load of each object).     *)
(***************************************************************************)
VARIABLES time, nextUpdates, track, reportables, out, nextActions,
          position, direction, untilStep, countdown, lifetime, lastUpdate, target,
          steppingrule, registry, dt, nextReport,
          Tend, running, pc, runs, nextU, exc,
          fireCount, fireTime, lastUpd, writes, trace, loadTime, delay,
          result, heap, handles

vars == <<time, nextUpdates, track, reportables, out, nextActions,
          position, direction, untilStep, countdown, lifetime, lastUpdate, target,
          steppingrule, registry, dt, nextReport,
          Tend, running, pc, runs, nextU, exc,
          fireCount, fireTime, lastUpd, writes, trace, loadTime, delay,
          result, heap, handles>>

\* the mutable part of the state as one record, threaded through a handler
State ==
    [time |-> time, q |-> nextUpdates, track |-> track, reportables |-> reportables,
     out |-> out, nextActions |-> nextActions,
     position |-> position, direction |-> direction, untilStep |-> untilStep,
     countdown |-> countdown, lifetime |-> lifetime, lastUpdate |-> lastUpdate,
     target |-> target, nextReport |-> nextReport, nextU |-> nextU, exc |-> "none",
     fireCount |-> fireCount, fireTime |-> fireTime, writes |-> {}, trace |-> <<>>]

Install(s) ==
    /\ time' = s.time
    /\ nextUpdates' = s.q
    /\ track' = s.track
    /\ reportables' = s.reportables
    /\ out' = s.out
    /\ nextActions' = s.nextActions
    /\ position' = s.position
    /\ direction' = s.direction
    /\ untilStep' = s.untilStep
    /\ countdown' = s.countdown
    /\ lifetime' = s.lifetime
    /\ lastUpdate' = s.lastUpdate
    /\ nextReport' = s.nextReport
    /\ target' = s.target
    /\ nextU' = s.nextU
    /\ exc' = s.exc
    /\ fireCount' = s.fireCount
    /\ fireTime' = s.fireTime
    /\ writes' = s.writes
    /\ trace' = s.trace

Raise(s, e) == [s EXCEPT !.exc = e]
Ok(s) == s.exc = "none"
\* the statements F after a call that left state s: an exception of the call
\* propagates, and the statements are not executed
AndThen(s, F(_)) == IF Ok(s) THEN F(s) ELSE s

(***************************************************************************)
(* Track: a BoundSafeList of cells.  Track.__init__ makes every cell a     *)
(* set(); the stepping rules assign lists.  No code of the library adds to *)
(* a set cell, so a set cell is always empty; a list cell holds a sequence.*)
(***************************************************************************)
EmptySetCell == [isList |-> FALSE, items |-> <<>>]
EmptyListCell == [isList |-> TRUE, items |-> <<>>]
NewTrack == [i \in 0..(TrackLen - 1) |-> EmptySetCell]

\* BoundSafeList.__getitem__: out of bounds gives a deep copy of set()
TrackGet(tr, i) == IF i < 0 \/ i >= TrackLen THEN EmptySetCell ELSE tr[i]
InBounds(i) == i >= 0 /\ i < TrackLen

\* list.__setitem__ (not overridden): negative indices count from the end
SetItemIndex(i) == IF i < 0 THEN i + TrackLen ELSE i
SetItemOk(i) == InBounds(SetItemIndex(i))
TrackSetItem(s, i, cell) ==
    IF SetItemOk(i)
    THEN [s EXCEPT !.track[SetItemIndex(i)] = cell, !.writes = @ \cup {i}]
    ELSE Raise([s EXCEPT !.writes = @ \cup {i}], "IndexError")

\* sim.track[i].append(x)
TrackAppend(s, i, x) ==
    IF ~TrackGet(s.track, i).isList THEN Raise(s, "AttributeError")
    ELSE [s EXCEPT !.track[i].items = Append(@, x)]

\* Track.remove: every cell in turn; a set cell raises KeyError (skipped),
\* a list cell without the value raises ValueError (not caught)
RECURSIVE TrackRemoveFrom(_, _, _)
TrackRemoveFrom(s, i, x) ==
    IF i >= TrackLen THEN s
    ELSE IF ~s.track[i].isList THEN TrackRemoveFrom(s, i + 1, x)
    ELSE IF Contains(s.track[i].items, x)
         THEN TrackRemoveFrom(
                [s EXCEPT !.track[i].items = RemoveAt(@, FirstIndex(@, x))], i + 1, x)
         ELSE Raise(s, "ValueError")
TrackRemove(s, x) == TrackRemoveFrom(s, 0, x)

CellsOf(tr, x) == {i \in 0..(TrackLen - 1) : Contains(tr[i].items, x)}
Occurrences(tr, x) ==
    LET RECURSIVE Sum(_)
        Sum(i) == IF i >= TrackLen THEN 0
                  ELSE Cardinality({k \in 1..Len(tr[i].items) : tr[i].items[k] = x}) + Sum(i + 1)
    IN Sum(0)

(***************************************************************************)
(* Reporter.                                                               *)
(***************************************************************************)
ReporterRegister(s, x) ==
    IF Contains(s.reportables, x) THEN s
    ELSE [s EXCEPT !.reportables = Append(@, x)]

ReporterUnregister(s, x) ==
    [s EXCEPT !.reportables = SelectSeq(@, LAMBDA y : y # x)]

\* type(reportable) and reportable.report()
Snapshot(s, x) ==
    IF x \in Composites
    THEN <<"MultiHeadParticle", [i \in 1..Len(Heads) |-> s.position[Heads[i]]]>>
    ELSE <<ClassOf(x), s.position[x]>>

\* Reporter.doReport that puts the new report in front
DoReportFront(s) ==
    [s EXCEPT !.out = <<[time |-> s.time,
                         snaps |-> [k \in 1..Len(s.reportables) |->
                                      Snapshot(s, s.reportables[k])]]>> \o @]

\* Reporter.doReport: the time and, per reportable, its class and report()
DoReport(s) ==
    [s EXCEPT !.out = Append(@,
        [time |-> s.time,
         snaps |-> [k \in 1..Len(s.reportables) |->
                      Snapshot(s, s.reportables[k])]])]

\* TimeBasedReporter.doReport that leaves the offset in the time reported
TimedReportRaw(s) == DoReport(s)

\* TimeBasedReporter.doReport: the offset is taken off the time reported
TimedReport(s) == [DoReport(s) EXCEPT !.out[Len(s.out) + 1].time = @ - Offset]

(***************************************************************************)
(* Updateable / Loadable / Event.                                          *)
(***************************************************************************)
\* an Updateable that always asks for its next update at once
NextUpdateNow(s, x) == 0

NextUpdate(s, x) ==
    IF x \in Events THEN s.countdown[x]
    ELSE IF x \in Walkers THEN s.untilStep[x]
    ELSE IF x \in FiniteLives THEN (IF s.lifetime[x] < Inf THEN s.lifetime[x] ELSE Inf)
    ELSE IF x \in Reporters THEN s.nextReport
    ELSE Inf

Queue(s, x) == [s EXCEPT !.q = OLLInsert(@, Plus(s.time, NextUpdate(s, x)), x)]
Unqueue(s, x) == [s EXCEPT !.q = OLLRemoveData(@, x)]
Requeue(s, x) == Queue(Unqueue(s, x), x)

\* Updateable.update that forgets to remember the time
UpdateableUpdateNoStamp(s, x) == Requeue(s, x)

UpdateableUpdate(s, x) == [Requeue(s, x) EXCEPT !.lastUpdate[x] = s.time]

LoadableLoad(s, x) ==
    LET s1 == IF IsUpdateable(x)
              THEN [s EXCEPT !.q = OLLInsert(@, Plus(s.time, NextUpdate(s, x)), x),
                             !.lastUpdate[x] = s.time]
              ELSE s
    IN IF IsReportable(x) THEN ReporterRegister(s1, x) ELSE s1

LoadableUnload(s, x) ==
    LET s1 == TrackRemove(s, x)
    IN IF ~Ok(s1) THEN s1
       ELSE [ReporterUnregister(s1, x) EXCEPT !.q = OLLRemoveAllData(@, x)]

ParticleLoad(s, x) == TrackAppend(LoadableLoad(s, x), s.position[x], x)

\* MultiHeadParticle.load: Loadable.load, then each head is loaded and unregistered
RECURSIVE LoadHeads(_, _)
LoadHeads(s, hs) ==
    IF hs = <<>> \/ ~Ok(s) THEN s
    ELSE LoadHeads(AndThen(ParticleLoad(s, Head(hs)), LAMBDA s1 : ReporterUnregister(s1, Head(hs))),
                   Tail(hs))

MultiHeadLoad(s, m) == LoadHeads(ReporterRegister(s, m), Heads)

\* MultiHeadParticle.unload: unregister, then head.unload(sim) for each head
RECURSIVE UnloadHeads(_, _)
UnloadHeads(s, hs) ==
    IF hs = <<>> \/ ~Ok(s) THEN s
    ELSE UnloadHeads(LoadableUnload(s, Head(hs)), Tail(hs))

MultiHeadUnload(s, m) == UnloadHeads(ReporterUnregister(s, m), Heads)

\* sim.load(Event(x.unload)): a new Event with remaining_time 0
LoadUnloadEvent(s, x) ==
    IF s.nextU > Len(UnloadSlots) THEN Raise(s, "BOUND")
    ELSE LET u == UnloadSlots[s.nextU]
         IN LoadableLoad([s EXCEPT !.nextU = @ + 1, !.countdown[u] = 0, !.target[u] = x], u)

\* the action of an Event: the user Events count their invocations
EventAction(s, e) ==
    IF e \in UserEvents
    THEN [s EXCEPT !.fireCount[e] = @ + 1, !.fireTime[e] = s.time]
    ELSE IF s.target[e] \in Composites THEN MultiHeadUnload(s, s.target[e])
    ELSE LoadableUnload(s, s.target[e])

\* Event.update without the test of the countdown
EventFiresAlways(c) == TRUE

EventFires(c) == c <= 0

EventUpdate(s, e) ==
    LET c == s.countdown[e] - (s.time - s.lastUpdate[e])
        s1 == [s EXCEPT !.countdown[e] = c]
        s2 == IF EventFires(c)
              THEN LET a == EventAction(s1, e) IN IF Ok(a) THEN Unqueue(a, e) ELSE a
              ELSE s1
    IN IF Ok(s2) THEN [s2 EXCEPT !.lastUpdate[e] = s.time] ELSE s2

FiniteLifeUpdate(s, x) ==
    LET l == Minus(s.lifetime[x], s.time - s.lastUpdate[x])
        s1 == [s EXCEPT !.lifetime[x] = l]
        s2 == IF l < Tolerance THEN LoadUnloadEvent(s1, x) ELSE s1
    IN IF Ok(s2) THEN [s2 EXCEPT !.lastUpdate[x] = s.time] ELSE s2

(***************************************************************************)
(* Actions (closures) returned by stepping rules and collision rules:      *)
(* [kind, a], where a is the object the closure captured.  A closure reads *)
(* the attributes of its object when it is executed, not when it is made.  *)
(***************************************************************************)
Act(kind, a) == [kind |-> kind, a |-> a]

HasTrackEnd(cell) == \E k \in 1..Len(cell.items) : IsInstance(cell.items[k], "TrackEnd")
AllWalkers(cell) == \A k \in 1..Len(cell.items) : IsInstance(cell.items[k], "Walker")

(***************************************************************************)
(* Stepping rules.  The result is [kind, actions]: kind "list" (take the   *)
(* step after the actions), "none" (no step) or "error" (RecursionError).  *)
(* d is the direction attribute of the walker while the rule runs:         *)
(* pushy_soft sets the direction of the walkers it asks to its own for the *)
(* duration of the call.  A walker asked a second time within one call     *)
(* chain is asked without end.                                             *)
(***************************************************************************)
RNone == [kind |-> "none", actions |-> <<>>]
RList(acts) == [kind |-> "list", actions |-> acts]
RError == [kind |-> "error", actions |-> <<>>]

\* the offset of the first empty cell in front of position p in direction d
RECURSIVE TrainEnd(_, _, _, _)
TrainEnd(tr, p, d, k) ==
    IF Len(TrackGet(tr, p + k * d).items) > 0 THEN TrainEnd(tr, p, d, k + 1) ELSE k

Careful(s, w, d) ==
    IF Len(TrackGet(s.track, s.position[w] + d).items) = 0 THEN RList(<<>>) ELSE RNone

Transparent(s, w, d) ==
    IF HasTrackEnd(TrackGet(s.track, s.position[w] + d)) THEN RNone ELSE RList(<<>>)

PushyHard(s, w, d) ==
    IF HasTrackEnd(TrackGet(s.track, s.position[w] + d)) THEN RNone
    ELSE RList(<<Act("shiftOthers", w)>>)

PushyTrain(s, w, d) ==
    LET p == s.position[w]
        k == TrainEnd(s.track, p, d, 1)
    IN IF \E j \in 1..(k - 1) : HasTrackEnd(TrackGet(s.track, p + j * d)) THEN RNone
       ELSE RList(<<Act("shiftTrain", w)>>)

RECURSIVE SteppingRule(_, _, _, _)
RECURSIVE AskOthers(_, _, _, _, _)
\* the loop of pushy_soft over the walkers of the target cell
AskOthers(s, others, d, depth, acc) ==
    IF others = <<>> THEN RList(acc)
    ELSE LET r == SteppingRule(s, Head(others), d, depth + 1)
         IN IF r.kind = "list" THEN AskOthers(s, Tail(others), d, depth, acc \o r.actions)
            ELSE r

PushySoft(s, w, d, depth) ==
    LET cell == TrackGet(s.track, s.position[w] + d)
    IN IF ~AllWalkers(cell) THEN RNone
       ELSE LET r == AskOthers(s, cell.items, d, depth, <<>>)
            IN IF r.kind = "list" THEN RList(Append(r.actions, Act("shiftOthers", w)))
               ELSE r

SteppingRule(s, w, d, depth) ==
    IF depth > Cardinality(Walkers) THEN RError
    ELSE CASE steppingrule[w] = "careful" -> Careful(s, w, d)
           [] steppingrule[w] = "transparent" -> Transparent(s, w, d)
           [] steppingrule[w] = "pushy_hard" -> PushyHard(s, w, d)
           [] steppingrule[w] = "pushy_train" -> PushyTrain(s, w, d)
           [] OTHER -> PushySoft(s, w, d, depth)

(***************************************************************************)
(* The closures of the stepping rules.                                     *)
(***************************************************************************)
\* shiftOthers of pushy_soft and pushy_hard: the loop over the target cell
RECURSIVE ShiftLoop(_, _, _)
ShiftLoop(s, w, others) ==
    IF others = <<>> \/ ~Ok(s) THEN s
    ELSE LET o == Head(others)
             s1 == TrackAppend(s, s.position[w] + 2 * s.direction[w], o)
         IN IF ~Ok(s1) THEN s1
            ELSE ShiftLoop([s1 EXCEPT !.position[o] = @ + s.direction[w]], w, Tail(others))

ShiftOthers(s, w) ==
    AndThen(ShiftLoop(s, w, TrackGet(s.track, s.position[w] + s.direction[w]).items),
            LAMBDA s1 : TrackSetItem(s1, s1.position[w] + s1.direction[w], EmptyListCell))

\* for particle in cell: particle.position += d
RECURSIVE MoveAll(_, _, _)
MoveAll(s, items, d) ==
    IF items = <<>> THEN s
    ELSE MoveAll([s EXCEPT !.position[Head(items)] = @ + d], Tail(items), d)

\* shiftOthers of pushy_train: the loop "while train_end >= 2"
RECURSIVE TrainLoop(_, _, _)
TrainLoop(s, w, te) ==
    IF te < 2 THEN s
    ELSE LET p == s.position[w]
             d == s.direction[w]
             s1 == TrackSetItem(s, p + te * d, TrackGet(s.track, p + (te - 1) * d))
         IN IF ~Ok(s1) THEN s1
            ELSE TrainLoop(MoveAll(s1, TrackGet(s1.track, p + te * d).items, d), w, te - 1)

ShiftTrain(s, w) ==
    AndThen(TrainLoop(s, w, TrainEnd(s.track, s.position[w], s.direction[w], 1)),
            LAMBDA s1 : TrackSetItem(s1, s1.position[w] + s1.direction[w], EmptyListCell))

(***************************************************************************)
(* Collision rules (collisionrules.py) and their closures.  A rule reads   *)
(* position and direction of its first argument; only Walkers have a       *)
(* direction.                                                              *)
(***************************************************************************)
CollisionRules == {"reflect", "kickOff", "burnOff", "fallOff"}

InFront(s, a, b) == s.position[a] + s.direction[a] = s.position[b]
Behind(s, a, b) == s.position[a] - s.direction[a] = s.position[b]

\* the list of closures rule(a, b, sim) returns
CollisionRule(rule, s, a, b) ==
    CASE rule = "reflect" -> IF InFront(s, a, b) THEN <<Act("flip", a)>> ELSE <<>>
      [] rule = "kickOff" -> IF InFront(s, a, b) THEN <<Act("unload", b)>> ELSE <<>>
      [] rule = "burnOff" -> IF InFront(s, a, b) \/ Behind(s, a, b)
                             THEN <<Act("unload", b)>> ELSE <<>>
      [] OTHER -> IF InFront(s, a, b) THEN <<Act("unload", a)>> ELSE <<>>

\* one closure, executed
RunAction(s, act) ==
    CASE act.kind = "shiftOthers" -> ShiftOthers(s, act.a)
      [] act.kind = "shiftTrain" -> ShiftTrain(s, act.a)
      [] act.kind = "flip" -> [s EXCEPT !.direction[act.a] = 0 - @]
      [] OTHER -> LoadUnloadEvent(s, act.a)

(***************************************************************************)
(* Collider.  registry is the dict in insertion order: a sequence of       *)
(* [t0, t1, rule, swap]; swap tells that the stored callable hands its     *)
(* arguments to the rule exchanged (the symmetrised lambda, or a rule that *)
(* went through swapRule, and not both).                                   *)
(***************************************************************************)
RegIndex(reg, t0, t1) ==
    IF \E i \in 1..Len(reg) : reg[i].t0 = t0 /\ reg[i].t1 = t1
    THEN CHOOSE i \in 1..Len(reg) : reg[i].t0 = t0 /\ reg[i].t1 = t1
    ELSE 0

\* dict assignment: an existing key keeps its place
RegPut(reg, e) ==
    LET i == RegIndex(reg, e.t0, e.t1)
    IN IF i = 0 THEN Append(reg, e) ELSE [reg EXCEPT ![i] = e]

\* a registration whose symmetrised entry calls the rule as it was given
RegisterRuleUnswapped(reg, t0, t1, rule, swapped) ==
    LET r1 == RegPut(reg, [t0 |-> t0, t1 |-> t1, rule |-> rule, swap |-> swapped])
    IN IF t0 # t1
       THEN RegPut(r1, [t0 |-> t1, t1 |-> t0, rule |-> rule, swap |-> swapped])
       ELSE r1

\* register(t0, t1, rule) for two types and one callable; swapped tells
\* whether the callable is swapRule(rule)
RegisterRule(reg, t0, t1, rule, swapped) ==
    LET r1 == RegPut(reg, [t0 |-> t0, t1 |-> t1, rule |-> rule, swap |-> swapped])
    IN IF t0 # t1
       THEN RegPut(r1, [t0 |-> t1, t1 |-> t0, rule |-> rule, swap |-> ~swapped])
       ELSE r1

Register(reg, t0, t1, rule) == RegisterRule(reg, t0, t1, rule, FALSE)

\* register(t0, t1, swapRule(rule))
RegisterSwapped(reg, t0, t1, rule) == RegisterRule(reg, t0, t1, rule, TRUE)

\* register(t0, t1, [r1, ..., rn]): the callable stored is concatRule
RegisterList(reg, t0, t1, rules) == RegisterRule(reg, t0, t1, "concatRule", FALSE)

\* register(type0, [..], rule): one registration per type of the list
RECURSIVE RegisterSecond(_, _, _, _)
RegisterSecond(reg, t0, T1s, rule) ==
    IF T1s = <<>> THEN reg
    ELSE RegisterSecond(Register(reg, t0, Head(T1s), rule), t0, Tail(T1s), rule)

\* register([..], type1, rule): the first list is the outer loop
RECURSIVE RegisterLists(_, _, _, _)
RegisterLists(reg, T0s, T1s, rule) ==
    IF T0s = <<>> THEN reg
    ELSE RegisterLists(RegisterSecond(reg, Head(T0s), T1s, rule), Tail(T0s), T1s, rule)

\* Collider.execute: nextActions.pop() takes the last element
RECURSIVE Execute(_)
Execute(s) ==
    IF s.nextActions = <<>> \/ ~Ok(s) THEN s
    ELSE LET n == Len(s.nextActions)
             act == s.nextActions[n]
             s1 == [s EXCEPT !.nextActions = SubSeq(@, 1, n - 1),
                             !.trace = Append(@, [op |-> "action", rule |-> act.kind,
                                                  key |-> <<>>, a |-> act.a,
                                                  b |-> NoObject, made |-> <<>>])]
         IN Execute(RunAction(s1, act))

\* the call of a stored callable as the trace keeps it
Called(e, a, b, acts) ==
    [op |-> "rule", rule |-> e.rule, key |-> <<e.t0, e.t1>>, a |-> a, b |-> b, made |-> acts]

\* concatRule loops over the variable rule of register, which register has
\* bound to concatRule itself before any call: a function is not iterable
ConcatRule(s, a, b) == Raise(s, "TypeError")

\* the rules read walker.direction, which only a Walker has
CallRule(s, e, a, b) ==
    IF e.rule = "concatRule" THEN ConcatRule(s, a, b)
    ELSE IF a \notin Walkers THEN Raise(s, "AttributeError")
    ELSE [s EXCEPT !.nextActions = @ \o CollisionRule(e.rule, s, a, b),
                   !.trace[Len(s.trace)].made = CollisionRule(e.rule, s, a, b)]

\* a rule whose actions are run at once instead of being kept for execute
CallEntryEager(s, e, x, y) ==
    LET a == IF e.swap THEN y ELSE x
        b == IF e.swap THEN x ELSE y
    IN Execute(CallRule([s EXCEPT !.trace = Append(@, Called(e, a, b, <<>>))], e, a, b))

\* registry[(t0, t1)](x, y, sim), appended to nextActions
CallEntry(s, e, x, y) ==
    LET a == IF e.swap THEN y ELSE x
        b == IF e.swap THEN x ELSE y
    IN CallRule([s EXCEPT !.trace = Append(@, Called(e, a, b, <<>>))], e, a, b)

\* newCollision without the second call of a key of two equal types
RECURSIVE DispatchOnce(_, _, _, _, _)
DispatchOnce(reg, s, i, o0, o1) ==
    IF i > Len(reg) \/ ~Ok(s) THEN s
    ELSE IF IsInstance(o0, reg[i].t0) /\ IsInstance(o1, reg[i].t1)
         THEN DispatchOnce(reg, CallEntry(s, reg[i], o0, o1), i + 1, o0, o1)
         ELSE DispatchOnce(reg, s, i + 1, o0, o1)

\* the loop of newCollision over the keys of reg, from the i-th on
RECURSIVE DispatchFrom(_, _, _, _, _)
DispatchFrom(reg, s, i, o0, o1) ==
    IF i > Len(reg) \/ ~Ok(s) THEN s
    ELSE LET e == reg[i]
         IN IF IsInstance(o0, e.t0) /\ IsInstance(o1, e.t1)
            THEN LET s1 == CallEntry(s, e, o0, o1)
                     s2 == IF Ok(s1) /\ e.t0 = e.t1 THEN CallEntry(s1, e, o1, o0) ELSE s1
                 IN DispatchFrom(reg, s2, i + 1, o0, o1)
            ELSE DispatchFrom(reg, s, i + 1, o0, o1)

NewCollisionFrom(s, i, o0, o1) == DispatchFrom(registry, s, i, o0, o1)

NewCollision(s, o0, o1) == NewCollisionFrom(s, 1, o0, o1)

(***************************************************************************)
(* Particle.checkCollisions, Walker.step, Walker.update.                   *)
(***************************************************************************)
RECURSIVE CollideAll(_, _, _, _)
CollideAll(s, w, others, rel) ==
    IF others = <<>> \/ ~Ok(s) THEN s
    ELSE IF rel = 0 /\ Head(others) = w THEN CollideAll(s, w, Tail(others), rel)
    ELSE CollideAll(NewCollision(s, w, Head(others)), w, Tail(others), rel)

CheckCollisions(s, w, rel) ==
    AndThen(CollideAll([s EXCEPT !.trace = <<>>], w,
                       TrackGet(s.track, s.position[w] + rel).items, rel),
            Execute)

RECURSIVE RunActions(_, _)
RunActions(s, acts) ==
    IF acts = <<>> \/ ~Ok(s) THEN s
    ELSE RunActions(RunAction(s, Head(acts)), Tail(acts))

\* the step proper: leave the cell at position, enter the next one
TakeStep(s, w) ==
    LET p == s.position[w]
        cell == TrackGet(s.track, p)
    IN IF ~(cell.isList /\ Contains(cell.items, w))
       THEN Raise(s, IF ~InBounds(p) THEN "RuntimeError: left the track"
                     ELSE "RuntimeError: missing on the track")
       ELSE LET s1 == [s EXCEPT !.track[p].items = RemoveAt(@, FirstIndex(@, w)),
                                !.position[w] = p + s.direction[w]]
            IN TrackAppend(s1, s1.position[w], w)

\* step with r the result of the stepping rule
StepWith(s, w, r) ==
    IF r.kind = "error" THEN Raise(s, "RecursionError")
    ELSE IF r.kind = "none" THEN s
    ELSE AndThen(RunActions(s, r.actions), LAMBDA s1 : TakeStep(s1, w))

WalkerStep(s, w) == StepWith(s, w, SteppingRule(s, w, s.direction[w], 0))

StepDue(u) == u < StepThreshold

\* speed is 1 for every Walker of the model, so 1/speed = 1
\* if self.untilStep < 1e10: self.step(sim); self.untilStep = 1/self.speed
StepIfDue(s, w) ==
    IF StepDue(s.untilStep[w])
    THEN AndThen(WalkerStep(s, w), LAMBDA t : [t EXCEPT !.untilStep[w] = 1])
    ELSE s

\* Walker.update after checkCollisions
CountDownAndStep(s, w) ==
    AndThen(StepIfDue([s EXCEPT !.untilStep[w] = @ - (s.time - s.lastUpdate[w])], w),
            LAMBDA t : UpdateableUpdate(t, w))

WalkerUpdate(s, w) ==
    AndThen(CheckCollisions(s, w, s.direction[w]), LAMBDA s1 : CountDownAndStep(s1, w))

\* updateable.update(sim), by class
\* TimeBasedReporter.update
ReporterUpdate(s, x) ==
    LET n == s.nextReport - (s.time - s.lastUpdate[x])
    IN IF n < Tolerance
       THEN UpdateableUpdate([TimedReport(s) EXCEPT !.nextReport = n + dt], x)
       ELSE UpdateableUpdate([s EXCEPT !.nextReport = n], x)

Update(s, x) ==
    IF x \in Events THEN EventUpdate(s, x)
    ELSE IF x \in FiniteLives THEN FiniteLifeUpdate(s, x)
    ELSE IF x \in Reporters THEN ReporterUpdate(s, x)
    ELSE IF x \in Walkers THEN WalkerUpdate(s, x)
    ELSE UpdateableUpdate(s, x)

(***************************************************************************)
(* Simulation.                                                             *)
(***************************************************************************)
\* no call has returned anything yet
(***************************************************************************)
(* BoundSafeList as objects: heap maps the identity of every cell object   *)
(* to its content.  Identity 0 is outOfBounds_value, identities            *)
(* 1..TrackLen are the items of the list (item k is at index k - 1), and   *)
(* larger identities are the copies made by __getitem__.                   *)
(***************************************************************************)
Sentinel == 0
Items == [k \in 1..TrackLen |-> k]
InitHeap == [c \in {Sentinel} \cup (1..TrackLen) |-> {}]

\* deepcopy(c): a new object with the content of c
DeepCopy(h, c) ==
    LET new == Cardinality(DOMAIN h)
    IN [heap |-> [d \in DOMAIN h \cup {new} |-> IF d = new THEN h[c] ELSE h[d]], id |-> new]

\* __getitem__ that hands out outOfBounds_value itself
GetItemShared(h, key) ==
    IF key < 0 \/ key >= Len(Items)
    THEN [heap |-> h, id |-> Sentinel]
    ELSE [heap |-> h, id |-> Items[key + 1]]

\* BoundSafeList.__getitem__(key) for an int key: the heap and the object returned
GetItem(h, key) ==
    IF key < 0 \/ key >= Len(Items)
    THEN DeepCopy(h, Sentinel)
    ELSE [heap |-> h, id |-> Items[key + 1]]

\* c.add(v) on the object c
CellAdd(h, c, v) == [h EXCEPT ![c] = @ \cup {v}]

NoResult == [called |-> FALSE, exc |-> "none", out |-> <<>>, args |-> <<>>, of |-> <<>>]

\* the reporter is an EventBasedReporter
EventBased == dt = NoDt

NoUpdate == [t |-> 0, data |-> NoObject, at |-> 0, Tend |-> 0, updated |-> FALSE]

\* the arguments T of run(T)
RunTimes == {0, 1, 2}

\* the registries of the Collider handed to the constructor
Registries ==
    { Register(Register(<<>>, "Walker", "Particle", "reflect"), "Walker", "Boundary", "kickOff"),
      Register(<<>>, "Walker", "Walker", "reflect") }

\* Simulation(L, collider, dt, markEnds=False), and no object made yet
InitSim(rules, regs, dts) ==
    /\ dt \in dts
    /\ nextReport = Offset
    /\ time = 0
    /\ nextUpdates = IF dt = NoDt THEN <<>> ELSE OLLInsert(<<>>, Offset, "R")
    /\ track = NewTrack
    /\ reportables = <<>>
    /\ out = <<>>
    /\ nextActions = <<>>
    /\ position = [x \in Objects |-> 0]
    /\ direction = [x \in Objects |-> 0]
    /\ untilStep = [x \in Objects |-> 0]
    /\ countdown = [x \in Objects |-> 0]
    /\ lifetime = [x \in Objects |-> 0]
    /\ lastUpdate = [x \in Objects |-> 0]
    /\ target = [x \in Objects |-> NoObject]
    /\ steppingrule \in {f \in [Walkers -> Rules] : f["W1"] \in rules /\ f["W2"] = "careful"}
    /\ registry \in regs
    /\ Tend = 0
    /\ running = FALSE
    /\ pc = "idle"
    /\ runs = 0
    /\ nextU = 1
    /\ exc = "none"
    /\ fireCount = [e \in UserEvents |-> 0]
    /\ fireTime = [e \in UserEvents |-> 0]
    /\ lastUpd = NoUpdate
    /\ writes = {}
    /\ trace = <<>>
    /\ loadTime = [x \in Objects |-> IF x \in Reporters /\ dt # NoDt THEN 0 ELSE -1]
    /\ delay = [x \in Objects |-> 0]
    /\ result = NoResult
    /\ heap = InitHeap
    /\ handles = <<>>

\* Simulation(L, collider, dt=None, markEnds=False)
InitWith(rules, regs) == InitSim(rules, regs, {NoDt})

Loaded(x) == loadTime[x] >= 0
Static == UNCHANGED <<steppingrule, registry, dt>>

\* what a call on the reporter returns is no part of the Simulation
Aside == UNCHANGED <<result, heap, handles>>
Idle == pc = "idle"

\* a call made by the user outside run: s is the state it leaves
Call(s) ==
    /\ s.exc # "BOUND"
    /\ Install(s)
    /\ UNCHANGED <<Tend, running, pc, runs, lastUpd>>
    /\ Static /\ Aside

\* sim.load(Event(mark, r))
LoadEvent(e, r) ==
    /\ Idle /\ ~Loaded(e)
    /\ Call(LoadableLoad([State EXCEPT !.countdown[e] = r], e))
    /\ loadTime' = [loadTime EXCEPT ![e] = time]
    /\ delay' = [delay EXCEPT ![e] = r]

\* sim.load(FiniteLife(l))
LoadFiniteLife(f, l) ==
    /\ Idle /\ ~Loaded(f)
    /\ Call(LoadableLoad([State EXCEPT !.lifetime[f] = l], f))
    /\ loadTime' = [loadTime EXCEPT ![f] = time]
    /\ delay' = [delay EXCEPT ![f] = l]

\* sim.load(TrackEnd(p))
LoadBoundary(b, p) ==
    /\ Idle /\ ~Loaded(b)
    /\ Call(ParticleLoad([State EXCEPT !.position[b] = p], b))
    /\ loadTime' = [loadTime EXCEPT ![b] = time]
    /\ UNCHANGED delay

\* sim.load(W(position=p, direction=d, speed=1))
LoadWalker(w, p, d) ==
    /\ Idle /\ ~Loaded(w)
    /\ Call(ParticleLoad([State EXCEPT !.position[w] = p, !.direction[w] = d,
                                       !.untilStep[w] = 1], w))
    /\ loadTime' = [loadTime EXCEPT ![w] = time]
    /\ UNCHANGED delay

\* sim.load(e) once more, of an Event that is loaded and still queued
Reload(e) ==
    /\ Idle /\ Loaded(e) /\ CountData(nextUpdates, e) = 1
    /\ Call(LoadableLoad(State, e))
    /\ UNCHANGED <<loadTime, delay>>

\* sim.unload(x)
Unload(x) ==
    /\ Idle /\ Loaded(x)
    /\ Call(LoadUnloadEvent(State, x))
    /\ UNCHANGED <<loadTime, delay>>

\* sim.run(T) up to the loop
StartRun(T) ==
    /\ Idle /\ runs < MaxRuns
    /\ Tend' = T + time
    /\ running' = TRUE
    /\ pc' = "run"
    /\ runs' = runs + 1
    /\ exc' = "none"
    /\ lastUpd' = NoUpdate
    /\ UNCHANGED <<time, nextUpdates, track, reportables, out, nextActions,
                   position, direction, untilStep, countdown, lifetime, lastUpdate, target,
                   nextReport, nextU, fireCount, fireTime, writes, trace, loadTime, delay>>
    /\ Static /\ Aside

\* run without the clamp of the time to T
ClampTimeNoClamp(t, T) == t

\* a loop that goes on after a node popped beyond T
StillRunningAlways(t, T) == TRUE

\* the time the loop sets after popping a node of time t
ClampTime(t, T) == IF t > T THEN T ELSE t
StillRunning(t, T) == ~(t > T)

\* run leaving the loop before the update of a payload popped beyond T
UpdatesBreak(t, T) == ~(t > T)

\* whether the popped payload is updated
Updates(t, T) == TRUE

\* self.time, updateable = self.nextUpdates.pop(), and the clamp
Pop(node) == [State EXCEPT !.q = Tail(@), !.time = ClampTime(node.t, Tend)]

\* run that reports after every update whatever the reporter is
RunReportAlways(s) == DoReport(s)

\* if isinstance(self.reporter, EventBasedReporter): self.reporter.doReport(self)
RunReport(s) == IF EventBased THEN DoReport(s) ELSE s

\* the update of the popped payload and the report
UpdateAndReport(s, node) ==
    AndThen(IF Updates(node.t, Tend) THEN Update(s, node.data) ELSE s, RunReport)

\* the end of an iteration that leaves state s: the loop goes on, ends, or
\* the exception leaves run
EndIteration(s, node) ==
    /\ s.exc # "BOUND"
    /\ Install(s)
    /\ running' = StillRunning(node.t, Tend)
    /\ pc' = IF Ok(s) /\ StillRunning(node.t, Tend) THEN "run" ELSE "idle"
    /\ lastUpd' = [t |-> node.t, data |-> node.data, at |-> s.time, Tend |-> Tend,
                    updated |-> Updates(node.t, Tend)]

\* one iteration of the loop of run: pop, set the time, update, report
RunIteration ==
    /\ pc = "run" /\ running
    /\ nextUpdates # <<>>
    /\ EndIteration(UpdateAndReport(Pop(Head(nextUpdates)), Head(nextUpdates)),
                    Head(nextUpdates))
    /\ UNCHANGED <<Tend, runs, loadTime, delay>>
    /\ Static /\ Aside

\* pop raises EmptyList: run returns
RunEmpty ==
    /\ pc = "run" /\ running
    /\ nextUpdates = <<>>
    /\ pc' = "idle"
    /\ UNCHANGED <<time, nextUpdates, track, reportables, out, nextActions,
                   position, direction, untilStep, countdown, lifetime, lastUpdate, target,
                   nextReport, Tend, running, runs, nextU, exc,
                   fireCount, fireTime, lastUpd, writes, trace, loadTime, delay>>
    /\ Static /\ Aside

(***************************************************************************)
(* Spec: user Events and a TrackEnd under load, unload and run.  The two   *)
(* user Events are interchangeable, so E1 is the one loaded first.         *)
(***************************************************************************)
Init == InitWith({"careful"}, {<<>>})

Next ==
    \/ \E e \in UserEvents, r \in 0..MaxDelay : (e = "E2" => Loaded("E1")) /\ LoadEvent(e, r)
    \/ \E b \in Boundaries : LoadBoundary(b, 0)
    \/ \E x \in Objects : Unload(x)
    \/ \E T \in RunTimes : StartRun(T)
    \/ RunIteration
    \/ RunEmpty

Spec == Init /\ [][Next]_vars

(***************************************************************************)
(* Properties of the main loop, the Events and the queue (under Spec).     *)
(***************************************************************************)
Min(a, b) == IF a < b THEN a ELSE b
Iterated == lastUpd.data # NoObject
Cancelled(e) == \E u \in UnloadEvents : target[u] = e
IndexOfData(q, x) == CHOOSE i \in 1..Len(q) : q[i].data = x

\* C1 as stated: within run(T), update is invoked only on payloads popped
\* with queued time t <= T_end, with sim.time = t at the update; a payload
\* popped with t > T_end is not updated.
C1_UpdateOnlyBeforeDeadline ==
    (Iterated /\ lastUpd.updated) => (lastUpd.t <= lastUpd.Tend /\ lastUpd.at = lastUpd.t)

\* C1 amended: within run(T), update is invoked on every popped payload, at
\* sim.time = min(t, T_end); a payload popped with t > T_end is updated once
\* at time T_end, and that iteration is the last of the call.
C1_UpdateEveryPopped ==
    Iterated =>
        /\ lastUpd.updated
        /\ lastUpd.at = Min(lastUpd.t, lastUpd.Tend)
        /\ (lastUpd.t > lastUpd.Tend => ~running /\ pc = "idle")

C1_Witness == Iterated /\ lastUpd.updated /\ lastUpd.t > lastUpd.Tend /\ lastUpd.t < Inf

\* C2: sim.time never decreases, and while a run call is under way it never
\* exceeds T_end = (time at the start of the call) + T.
C2_TimeMonotoneBounded ==
    [][ /\ time' >= time
        /\ (pc = "run" \/ pc' = "run") => time' <= Tend' ]_vars

C2_Witness == Iterated /\ lastUpd.t > lastUpd.Tend /\ time = Tend /\ time > 0 /\ runs > 1

\* C3 as stated: an Event loaded at t0 with remaining_time r fires its action
\* once the simulation has been run to a time >= t0 + r, however the run is
\* split into run calls.  (Stated for r >= 1 and Events nobody unloads: then
\* a time >= t0 + r is reached by run calls made after the load.)
C3_EventFiresWhenDue ==
    \A e \in UserEvents :
        (Loaded(e) /\ delay[e] >= 1 /\ ~Cancelled(e) /\ pc = "idle"
            /\ time >= loadTime[e] + delay[e])
        => fireCount[e] >= 1

\* C4: the action of an Event is invoked at most once, and only at a time
\* >= load time + remaining_time; once it has fired the Event has no entry
\* in the update queue.
C4_EventFiresOnceNotEarly ==
    \A e \in UserEvents :
        /\ fireCount[e] <= 1
        /\ fireCount[e] >= 1 =>
              /\ fireTime[e] >= loadTime[e] + delay[e]
              /\ ~OLLHasData(nextUpdates, e)

C4_Witness == \E e \in UserEvents : fireCount[e] = 1 /\ delay[e] >= 1 /\ loadTime[e] >= 1

\* C5 as stated: queue entries with identical times are popped in insertion
\* order.  (E1 is loaded, hence inserted, before E2.)
C5_TiesFIFO ==
    (OLLHasData(nextUpdates, "E1") /\ OLLHasData(nextUpdates, "E2")
        /\ nextUpdates[IndexOfData(nextUpdates, "E1")].t
             = nextUpdates[IndexOfData(nextUpdates, "E2")].t)
    => IndexOfData(nextUpdates, "E1") < IndexOfData(nextUpdates, "E2")

(***************************************************************************)
(* SpecReload: Spec, and the user may load an Event that is already       *)
(* loaded.                                                                 *)
(***************************************************************************)
NextReload ==
    \/ Next
    \/ \E e \in UserEvents : Reload(e)

SpecReload == Init /\ [][NextReload]_vars

\* C6 as stated: after any sequence of load, run and unload operations,
\* every Updateable appears at most once as payload in the update queue.
C6_AtMostOnceInQueue == \A x \in Objects : CountData(nextUpdates, x) <= 1

(***************************************************************************)
(* SpecTrack: two Walkers (W1 with any stepping rule, W2 careful) and a    *)
(* TrackEnd under a Collider with rules, load and run.  The objects are    *)
(* loaded in the order W1, B1, W2.                                         *)
(***************************************************************************)
InitTrack == InitWith(Rules, Registries)

NextTrack ==
    \/ \E w \in Walkers, p \in 0..(TrackLen - 1), d \in {-1, 1} :
          (w = "W2" => Loaded("B1")) /\ LoadWalker(w, p, d)
    \/ \E b \in Boundaries, p \in 0..(TrackLen - 1) : Loaded("W1") /\ LoadBoundary(b, p)
    \/ \E T \in {0, 1} : StartRun(T)
    \/ RunIteration
    \/ RunEmpty

SpecTrack == InitTrack /\ [][NextTrack]_vars

RuleEntries == SelectSeq(trace, LAMBDA x : x.op = "rule")
ActionEntries == SelectSeq(trace, LAMBDA x : x.op = "action")
RECURSIVE Flatten(_)
Flatten(q) == IF q = <<>> THEN <<>> ELSE Head(q).made \o Flatten(Tail(q))
\* the closures in the order newCollision appended them / execute ran them
AppendedSeq == Flatten(RuleEntries)
ExecutedSeq == [k \in 1..Len(ActionEntries) |-> Act(ActionEntries[k].rule, ActionEntries[k].a)]

\* C7 as stated: every particle that is loaded and not unloaded is contained
\* in exactly one track cell, and that cell's index equals its position.
C7_OneCellAtPosition ==
    \A x \in Particles :
        (Loaded(x) /\ ~Cancelled(x)) =>
            /\ Occurrences(track, x) = 1
            /\ CellsOf(track, x) = {position[x]}

\* C8 as stated: no operation of the core writes to a track index outside
\* [0, L).
C8_NoWriteOutOfBounds == \A i \in writes : InBounds(i)

\* C9: within one checkCollisions call every collision rule is evaluated
\* before any of the returned actions is executed.
C9_RulesBeforeActions ==
    \A i, j \in 1..Len(trace) :
        (trace[i].op = "action" /\ trace[j].op = "rule") => j < i

C9_Witness == Len(RuleEntries) >= 2 /\ Len(ActionEntries) >= 2

\* C10 as stated: execute invokes the pending actions in the order in which
\* newCollision appended them, and leaves the pending list empty (stated
\* for the calls of execute that ran every pending action).
C10_ExecuteFIFO ==
    (trace # <<>> /\ Len(ActionEntries) = Len(AppendedSeq)) =>
        (ExecutedSeq = AppendedSeq /\ nextActions = <<>>)


(***************************************************************************)
(* The Collider on its own: registries built by register calls before the  *)
(* first collision, newCollision and execute called by the user on loaded  *)
(* particles.                                                              *)
(***************************************************************************)
Kinds == {"Walker", "Boundary", "Particle"}
Unrelated(A, B) == A # B /\ ~IsA(A, B) /\ ~IsA(B, A)
KindLists == {<<"Walker">>, <<"Boundary">>, <<"Walker", "Boundary">>, <<"Boundary", "Walker">>}
TwoRules == <<"reflect", "kickOff">>

ColliderRegistries ==
    { Register(<<>>, A, B, r) : A \in Kinds, B \in Kinds, r \in {"reflect", "kickOff"} }
    \cup { RegisterSwapped(<<>>, A, B, r) : A \in {"Walker", "Boundary"}, B \in {"Walker", "Boundary"},
                                           r \in {"reflect", "kickOff"} }
    \cup { RegisterList(<<>>, "Walker", B, TwoRules) : B \in {"Walker", "Boundary"} }
    \cup { RegisterLists(<<>>, As, Bs, "reflect") : As \in KindLists, Bs \in KindLists }
    \cup { Register(Register(<<>>, A, "Particle", "kickOff"), "Walker", B, "reflect") :
             A \in {"Walker", "Particle"}, B \in {"Walker", "Boundary"} }
    \cup { Register(Register(Register(<<>>, "Walker", "Walker", "reflect"),
                              "Walker", "Particle", "kickOff"), "Walker", "Boundary", r) :
             r \in {"reflect", "kickOff"} }

\* the mark newCollision called by the user leaves at the head of the trace
Collision(x, y) ==
    [op |-> "collide", rule |-> "none", key |-> <<>>, a |-> x, b |-> y, made |-> <<>>]

\* collider.newCollision(x, y, sim), nothing pending
Collide(x, y) ==
    /\ Idle /\ Loaded(x) /\ Loaded(y) /\ nextActions = <<>>
    /\ Call(NewCollision([State EXCEPT !.trace = <<Collision(x, y)>>], x, y))
    /\ UNCHANGED <<loadTime, delay>>

\* collider.execute(sim)
ExecuteCall ==
    /\ Idle /\ nextActions # <<>>
    /\ Call(Execute(State))
    /\ UNCHANGED <<loadTime, delay>>

InitCollider == InitWith({"careful"}, ColliderRegistries)

NextCollider ==
    \/ \E p \in 0..1, d \in {-1, 1} : LoadWalker("W1", p, d)
    \/ \E d \in {-1, 1} : LoadWalker("W2", 1, d)
    \/ LoadBoundary("B1", TrackLen - 1)
    \/ \E x \in Particles, y \in Particles : x # y /\ Collide(x, y)
    \/ ExecuteCall

SpecCollider == InitCollider /\ [][NextCollider]_vars


\* the user's newCollision(x, y, sim) is the last call made
Collided == trace # <<>> /\ trace[1].op = "collide"

\* the calls of the callable stored under key that the trace holds
CallsOf(key) == SelectSeq(trace, LAMBDA c : c.op = "rule" /\ c.key = key)

\* how often the entry e is due in a collision of x with y
Due(e, x, y) ==
    IF IsInstance(x, e.t0) /\ IsInstance(y, e.t1)
    THEN (IF e.t0 = e.t1 THEN 2 ELSE 1)
    ELSE 0

\* C11: newCollision(x, y) calls the callable of every key (K0, K1) with
\* x is-a K0 and y is-a K1, once when K0 # K1 and twice, once per argument
\* order, when K0 = K1, and calls the callable of no other key; when a rule
\* raises, the calls made so far are among the due ones.
C11_DispatchBySubtype ==
    Collided =>
        \A i \in 1..Len(registry) :
            LET e == registry[i]
                calls == CallsOf(<<e.t0, e.t1>>)
                due == Due(e, trace[1].a, trace[1].b)
            IN /\ Len(calls) <= due
               /\ exc = "none" => Len(calls) = due
               /\ Len(calls) = 2 =>
                    {<<calls[1].a, calls[1].b>>, <<calls[2].a, calls[2].b>>}
                        = {<<trace[1].a, trace[1].b>>, <<trace[1].b, trace[1].a>>}

C11_Witness ==
    /\ Collided /\ exc = "none"
    /\ \E i \in 1..Len(registry), j \in 1..Len(registry), k \in 1..Len(registry) :
          /\ Len(CallsOf(<<registry[i].t0, registry[i].t1>>)) = 2
          /\ registry[j].t0 # registry[j].t1
          /\ Len(CallsOf(<<registry[j].t0, registry[j].t1>>)) = 1
          /\ Len(CallsOf(<<registry[k].t0, registry[k].t1>>)) = 0


\* the state newCollision(x, y, sim) of the last call started from
BeforeCollision == [State EXCEPT !.nextActions = <<>>, !.trace = <<trace[1]>>]

\* the rules called, with the arguments handed to them
RuleCalls(tr) == SelectSeq(tr, LAMBDA c : c.op = "rule")

\* the last call collided an instance of A with an instance of B
Between(A, B) ==
    \/ IsInstance(trace[1].a, A) /\ IsInstance(trace[1].b, B)
    \/ IsInstance(trace[1].a, B) /\ IsInstance(trace[1].b, A)

\* the outcome of the last newCollision is the one it has under reg
SameOutcome(reg) ==
    LET s == DispatchFrom(reg, BeforeCollision, 1, trace[1].a, trace[1].b)
    IN s.nextActions = nextActions /\ s.exc = exc

\* C12: for unrelated kinds A # B, a collision between an A-instance and a
\* B-instance, queried in either order, has the same outcome after
\* register(A, B, r) as after register(B, A, swapRule(r)), and r is called
\* with the A-instance first.
C12_RegistrationSymmetric ==
    Collided =>
        \A A \in Kinds, B \in Kinds, r \in {"reflect", "kickOff"} :
            ( /\ Unrelated(A, B) /\ Between(A, B)
              /\ registry \in {Register(<<>>, A, B, r), RegisterSwapped(<<>>, B, A, r)} )
            => /\ SameOutcome(Register(<<>>, A, B, r))
               /\ SameOutcome(RegisterSwapped(<<>>, B, A, r))
               /\ Len(RuleCalls(trace)) = 1
               /\ IsInstance(RuleCalls(trace)[1].a, A)
               /\ IsInstance(RuleCalls(trace)[1].b, B)

C12_Witness ==
    /\ Collided
    /\ registry = RegisterSwapped(<<>>, "Boundary", "Walker", "reflect")
    /\ trace[1].a \in Boundaries
    /\ nextActions = <<Act("flip", trace[1].b)>>


\* r1(x, y) ++ ... ++ rn(x, y)
RECURSIVE Fused(_, _, _, _)
Fused(rules, s, x, y) ==
    IF rules = <<>> THEN <<>>
    ELSE CollisionRule(Head(rules), s, x, y) \o Fused(Tail(rules), s, x, y)

\* C13: after register(A, B, [r1, ..., rn]) a collision between x:A and
\* y:B raises nothing and leaves r1(x, y) ++ ... ++ rn(x, y) pending.
C13_FusedRule ==
    Collided =>
        \A B \in {"Walker", "Boundary"} :
            ( /\ registry = RegisterList(<<>>, "Walker", B, TwoRules)
              /\ IsInstance(trace[1].a, "Walker") /\ IsInstance(trace[1].b, B) )
            => /\ exc = "none"
               /\ B # "Walker" => nextActions = Fused(TwoRules, State, trace[1].a, trace[1].b)


\* C14: after register(As, Bs, rule) with lists of kinds, a collision of an
\* instance x of a kind of As with an instance y of a kind of Bs calls
\* rule(x, y), also when the lists share kinds.
C14_CartesianProduct ==
    Collided =>
        \A As \in KindLists, Bs \in KindLists :
            ( /\ registry = RegisterLists(<<>>, As, Bs, "reflect")
              /\ \E i \in 1..Len(As) : IsInstance(trace[1].a, As[i])
              /\ \E j \in 1..Len(Bs) : IsInstance(trace[1].b, Bs[j]) )
            => \E n \in 1..Len(RuleCalls(trace)) :
                  /\ RuleCalls(trace)[n].a = trace[1].a
                  /\ RuleCalls(trace)[n].b = trace[1].b


(***************************************************************************)
(* SpecUnload: one Walker and one TrackEnd on the track, under load,       *)
(* unload and run.                                                         *)
(***************************************************************************)
NextUnload ==
    \/ \E p \in 0..(TrackLen - 1), d \in {-1, 1} : LoadWalker("W1", p, d)
    \/ \E p \in 0..(TrackLen - 1) : Loaded("W1") /\ LoadBoundary("B1", p)
    \/ \E x \in {"W1", "B1"} : Unload(x)
    \/ \E T \in {0, 1} : StartRun(T)
    \/ RunIteration
    \/ RunEmpty

SpecUnload == InitTrack /\ [][NextUnload]_vars

\* the last iteration of run updated the Event of an unload
UnloadProcessed == Iterated /\ lastUpd.data \in UnloadEvents

\* x is in no track cell, no queue entry and not registered with the reporter
Gone(x) ==
    /\ Occurrences(track, x) = 0
    /\ CountData(nextUpdates, x) = 0
    /\ ~Contains(reportables, x)

\* C15: once run has processed the Event of sim.unload(x), x is in no
\* track cell, no queue entry has x as payload, x is not registered with
\* the reporter, and the Event is no longer queued.
C15_UnloadComplete ==
    UnloadProcessed =>
        /\ Gone(target[lastUpd.data])
        /\ CountData(nextUpdates, lastUpd.data) = 0


\* the payload run pops next is the Event of an unload of an agent that an
\* earlier unload has removed already
SecondUnload ==
    /\ nextUpdates # <<>>
    /\ Head(nextUpdates).data \in UnloadEvents
    /\ Gone(target[Head(nextUpdates).data])

\* C16: processing the Event of an unload of an agent that an earlier
\* unload has removed raises nothing and leaves the track, the reporter
\* registry and the rest of the queue as they are.
C16_UnloadIdempotent ==
    [][(RunIteration /\ SecondUnload) =>
          /\ exc' = "none"
          /\ track' = track
          /\ reportables' = reportables
          /\ nextUpdates' = Tail(nextUpdates)]_vars


(***************************************************************************)
(* SpecReport: both reporters.  Simulation(L, dt=None) or Simulation(L,    *)
(* dt=d) with an Event, a FiniteLife and a TrackEnd under load, unload and *)
(* run.  One unit of time is half the tolerance 1e-10 of the reporter, and *)
(* the offset and the periods are larger than the tolerance as in the      *)
(* code.                                                                   *)
(***************************************************************************)
Periods == {Offset + 1, Offset + 2}
ReportRunTimes == {0, Offset - 1, Offset, Offset + 2}

InitReport == InitSim({"careful"}, {<<>>}, {NoDt} \cup Periods)

NextReport ==
    \/ \E r \in {0, MaxDelay, Offset} : LoadEvent("E1", r)
    \/ \E l \in {1, MaxDelay} : LoadFiniteLife("F1", l)
    \/ LoadBoundary("B1", 0)
    \/ \E x \in Boundaries : Unload(x)
    \/ \E T \in ReportRunTimes : StartRun(T)
    \/ RunIteration
    \/ RunEmpty

SpecReport == InitReport /\ [][NextReport]_vars


\* x is loaded by this step: by the user, or as the Event of an unload
LoadedNow(x) ==
    \/ loadTime[x] < 0 /\ loadTime'[x] >= 0
    \/ nextU' = nextU + 1 /\ x = UnloadSlots[nextU]

\* C17: lastUpdate of an Updateable equals sim.time when it is loaded, and
\* after each of its updates that returns it equals the simulation time of
\* that update.
C17_LastUpdateIsTime ==
    /\ \A x \in Objects : Loaded(x) => lastUpdate[x] = time
    /\ [][/\ \A x \in Objects : LoadedNow(x) => lastUpdate'[x] = time'
          /\ (RunIteration /\ exc' = "none")
                => lastUpdate'[Head(nextUpdates).data] = time']_vars

C17_Witness ==
    /\ Iterated /\ exc = "none" /\ pc = "run"
    /\ lastUpd.data \in Reporters
    /\ time > 0
    /\ lastUpdate[lastUpd.data] = time


\* this step is an iteration of run whose update returns
Updated == RunIteration /\ exc' = "none"

\* C18: with the event-based reporter, run appends one report carrying the
\* time of the update after each update that returns, and nothing else
\* appends a report; with the time-based reporter a report is appended only
\* by an update of the reporter itself, never by run.
C18_ReportPerUpdate ==
    [][/\ (EventBased /\ Updated) =>
             /\ Len(out') = Len(out) + 1
             /\ SubSeq(out', 1, Len(out)) = out
             /\ out'[Len(out')].time = time'
       /\ (EventBased /\ ~Updated) => out' = out
       /\ (~EventBased /\ ~(RunIteration /\ Head(nextUpdates).data \in Reporters))
             => out' = out]_vars

C18_Witness ==
    /\ EventBased /\ Iterated /\ exc = "none" /\ pc = "run"
    /\ time > 0
    /\ Len(out) >= 2
    /\ out[Len(out)].time = time


\* time-based mode, between two calls of run
Quiet == ~EventBased /\ pc = "idle"

\* the number of k >= 0 with k * dt + Offset <= T
GridCount(T) == IF T < Offset THEN 0 ELSE ((T - Offset) \div dt) + 1

\* the number of k >= 0 with k * dt + Offset - Tolerance < T
DueCount(T) == IF T <= Offset - Tolerance THEN 0 ELSE ((T - (Offset - Tolerance) - 1) \div dt) + 1

\* C19 as stated: in time-based mode, after the simulation has been run to
\* time T, out holds exactly one report per k with k * dt + offset <= T, in
\* increasing order, with recorded time exactly k * dt.
C19_ExactGrid ==
    Quiet =>
        /\ Len(out) = GridCount(time)
        /\ \A k \in 1..Len(out) : out[k].time = (k - 1) * dt

\* C19 amended: out holds one report per k with k * dt + offset <= T, at
\* most one more for the next k when T is less than the tolerance before
\* k * dt + offset, in increasing order, and the recorded time of the k-th
\* is k * dt or less than the tolerance below it.
C19_GridWithinTolerance ==
    Quiet =>
        /\ GridCount(time) <= Len(out)
        /\ Len(out) <= DueCount(time)
        /\ \A k \in 1..Len(out) :
              out[k].time <= (k - 1) * dt /\ out[k].time > (k - 1) * dt - Tolerance


C19_Witness ==
    /\ Quiet /\ time > dt + Offset
    /\ Len(out) = 2
    /\ out[1].time = 0 /\ out[2].time = dt

\* C20: reporter.out is ordered by ascending time, whichever the reporter.
C20_OutAscending ==
    \A i \in 1..Len(out), j \in 1..Len(out) : i < j => out[i].time <= out[j].time

C20_Witness ==
    /\ ~EventBased /\ pc = "idle" /\ runs = MaxRuns
    /\ Len(out) >= 2
    /\ out[1].time < out[Len(out)].time


(***************************************************************************)
(* Reporter.resample.  NoneArg stands for None in (start, stop, step); a   *)
(* float discretization d is the tuple (None, None, d).  The result is the *)
(* out of the TimeBasedReporter returned, or the exception raised.         *)
(***************************************************************************)
NoneArg == -1000

\* dt_gen(start, stop, step)
RECURSIVE DtGen(_, _, _)
DtGen(cur, stop, step) ==
    IF cur < stop THEN <<cur>> \o DtGen(cur + step, stop, step) ELSE <<>>

\* the inner while loop: i_report (counted from 0) moves on while the next
\* report is not later than reporttime + offset
RECURSIVE Advance(_, _, _)
Advance(o, i, reporttime) ==
    IF i + 1 < Len(o) /\ o[i + 2].time <= reporttime + Offset
    THEN Advance(o, i + 1, reporttime)
    ELSE i

\* self.out[i]: a negative index counts from the end
PyIndex(o, i) == IF i < 0 THEN o[Len(o) + i + 1] ELSE o[i + 1]

\* the for loop over the target times
RECURSIVE Assemble(_, _, _, _)
Assemble(o, targets, i, acc) ==
    IF targets = <<>> THEN acc
    ELSE Assemble(o, Tail(targets), Advance(o, i, Head(targets)),
                  Append(acc, [PyIndex(o, Advance(o, i, Head(targets)))
                                 EXCEPT !.time = Head(targets)]))

\* the target times once the None of start and stop are resolved
Targets(o, start, stop, step) ==
    DtGen(IF start = NoneArg THEN o[1].time ELSE start,
          IF stop = NoneArg THEN o[Len(o)].time + step ELSE stop,
          step)

\* self.out[0], self.out[-1] and self.out[i_report] raise IndexError on an
\* empty out, timebased.out[-1] when there is no target time
Resample(o, start, stop, step) ==
    IF o = <<>> \/ Targets(o, start, stop, step) = <<>>
    THEN [called |-> TRUE, exc |-> "IndexError", out |-> <<>>,
          args |-> <<start, stop, step>>, of |-> o]
    ELSE [called |-> TRUE, exc |-> "none",
          out |-> Assemble(o, Targets(o, start, stop, step), -1, <<>>),
          args |-> <<start, stop, step>>, of |-> o]

\* the variables of the Simulation and of its observation
SimVars ==
    <<time, nextUpdates, track, reportables, out, nextActions,
      position, direction, untilStep, countdown, lifetime, lastUpdate, target,
      steppingrule, registry, dt, nextReport,
      Tend, running, pc, runs, nextU, exc,
      fireCount, fireTime, lastUpd, writes, trace, loadTime, delay>>

\* sim.reporter.resample((start, stop, step)), once
ResampleCall(start, stop, step) ==
    /\ Idle /\ ~result.called
    /\ result' = Resample(out, start, stop, step)
    /\ UNCHANGED <<SimVars, heap, handles>>

(***************************************************************************)
(* SpecResample: reports recorded by either reporter while a TrackEnd and  *)
(* an Event are loaded between the runs, then resampled.                   *)
(***************************************************************************)
ResampleStarts == {NoneArg, 0}
ResampleStops == {NoneArg, Offset + 1}
ResampleSteps == {2} \cup (Periods \cap {dt})

NextResample ==
    \/ \E r \in {0, MaxDelay} : LoadEvent("E1", r)
    \/ LoadBoundary("B1", 0)
    \/ \E T \in ReportRunTimes : StartRun(T)
    \/ RunIteration
    \/ RunEmpty
    \/ \E start \in ResampleStarts, stop \in ResampleStops, step \in ResampleSteps :
          ResampleCall(start, stop, step)

SpecResample == InitReport /\ [][NextResample]_vars

\* the reports of o not later than t + offset
UpTo(o, t) == {j \in 1..Len(o) : o[j].time <= t + Offset}

\* e is a copy of a report of o with the largest time <= t + offset, its
\* time overwritten to t
CopyOfLatest(e, o, t) ==
    \E j \in UpTo(o, t) :
        /\ \A k \in UpTo(o, t) : o[k].time <= o[j].time
        /\ e = [o[j] EXCEPT !.time = t]

\* C21: resample((start, stop, step)) of a reporter that has recorded
\* reports returns one entry per target time t_i = start + i * step in
\* [start, stop), and the i-th entry is a copy of the recorded report with
\* the largest time <= t_i + offset, with its time overwritten to t_i.
C21_ResampleLatestBefore ==
    (result.called /\ result.of # <<>> /\ result.args[1] # NoneArg /\ result.args[2] # NoneArg) =>
        LET start == result.args[1]
            stop == result.args[2]
            step == result.args[3]
            n == IF stop > start THEN ((stop - start - 1) \div step) + 1 ELSE 0
        IN /\ result.exc = "none"
           /\ Len(result.out) = n
           /\ \A i \in 1..n :
                 CopyOfLatest(result.out[i], result.of, start + (i - 1) * step)


\* C22: for an out recorded by the time-based reporter with period dt,
\* resample(dt) returns a reporter whose out equals the recorded out.
C22_ResampleRoundTrip ==
    (result.called /\ ~EventBased /\ result.of # <<>> /\ result.args = <<NoneArg, NoneArg, dt>>)
        => (result.exc = "none" /\ result.out = result.of)


(***************************************************************************)
(* BoundSafeList on its own: reads at in-bounds and out-of-bounds keys,    *)
(* and mutation of the objects the reads returned.  A handle is one read:  *)
(* its key, the object returned, the content seen at the read and what     *)
(* the caller added to the object since.                                   *)
(***************************************************************************)
MaxReads == 3
Keys == {0 - TrackLen, 0 - 1, 0, TrackLen - 1, TrackLen}
CellValues == {"a", "b"}

\* c = lst[key]
GetItemCall(key) ==
    /\ Len(handles) < MaxReads
    /\ LET r == GetItem(heap, key)
       IN /\ heap' = r.heap
          /\ handles' = Append(handles, [key |-> key, id |-> r.id, seen |-> r.heap[r.id], added |-> {}])
    /\ UNCHANGED <<SimVars, result>>

\* c.add(v) for the object c of an earlier read
AddCall(i, v) ==
    /\ i \in 1..Len(handles)
    /\ v \notin handles[i].added
    /\ heap' = CellAdd(heap, handles[i].id, v)
    /\ handles' = [handles EXCEPT ![i].added = @ \cup {v}]
    /\ UNCHANGED <<SimVars, result>>

NextList ==
    \/ \E key \in Keys : GetItemCall(key)
    \/ \E i \in 1..MaxReads, v \in CellValues : AddCall(i, v)

InitList == InitWith({"careful"}, {<<>>})
SpecList == InitList /\ [][NextList]_vars

\* what was added to the list's item at index key through the reads of that index
AddedAt(key) == UNION {handles[i].added : i \in {j \in 1..Len(handles) : handles[j].key = key}}

\* C23: a read outside [0, L) returns a fresh empty cell (no wraparound for
\* negative indices): what is added to it shows neither in an in-bounds cell
\* nor in a later out-of-bounds read; an in-bounds read returns the live cell.
C23_OutOfBoundsFresh ==
    /\ \A i \in 1..Len(handles) :
          ~InBounds(handles[i].key) =>
              /\ handles[i].seen = {}
              /\ heap[handles[i].id] = handles[i].added
              /\ \A j \in 1..Len(handles) : j # i => handles[j].id # handles[i].id
    /\ \A i \in 1..Len(handles) :
          InBounds(handles[i].key) => handles[i].id = Items[handles[i].key + 1]
    /\ \A key \in 0..(TrackLen - 1) : heap[Items[key + 1]] = AddedAt(key)

\* a cell read at a negative index was mutated, then an index beyond the end
\* and an in-bounds index were read, and the in-bounds cell was mutated
C23_Witness ==
    /\ Len(handles) >= 3
    /\ handles[1].key < 0 /\ handles[1].added # {}
    /\ handles[2].key >= TrackLen
    /\ InBounds(handles[3].key) /\ handles[3].added # {}


(***************************************************************************)
(* OrderedLinkedList on its own: nextUpdates is the list, result is the    *)
(* last call (its arguments, the list it found, what it raised and what    *)
(* it returned).                                                           *)
(***************************************************************************)
MaxNodes == 3
Data == Twins \cup {"d3"}
NodeTimes == 0..MaxDelay
Shifts == {0 - 1, 1}
OtherVars ==
    <<time, track, reportables, out, nextActions,
      position, direction, untilStep, countdown, lifetime, lastUpdate, target,
      steppingrule, registry, dt, nextReport,
      Tend, running, pc, runs, nextU, exc,
      fireCount, fireTime, lastUpd, writes, trace, loadTime, delay, heap, handles>>

\* a call of a method of the list that leaves l
ListCall(args, l) ==
    /\ nextUpdates' = l.q
    /\ result' = [called |-> TRUE, exc |-> l.exc, out |-> l.ret, args |-> args, of |-> nextUpdates]
    /\ UNCHANGED OtherVars

InsertCall(t, data) ==
    /\ Len(nextUpdates) < MaxNodes
    /\ ListCall(<<"insert", t, data>>, Left(OLLInsert(nextUpdates, t, data), "none", <<>>))

PopCall == ListCall(<<"pop">>, OLLPop(nextUpdates))

RemoveCall(t, tmax) == ListCall(<<"remove", t, tmax>>, OLLRemove(nextUpdates, t, tmax))

RemoveDataCall(data) == ListCall(<<"removeData", data>>, OLLRemoveDataRaising(nextUpdates, data))

MovetCall(d) ==
    /\ \A i \in 1..Len(nextUpdates) : nextUpdates[i].t + d \in NodeTimes
    /\ ListCall(<<"movet", d>>, Left(OLLMovet(nextUpdates, d), "none", <<>>))

NextOLL ==
    \/ \E t \in NodeTimes, data \in Data : InsertCall(t, data)
    \/ PopCall
    \/ \E t \in NodeTimes, tmax \in NodeTimes \cup {NoTmax} : RemoveCall(t, tmax)
    \/ \E data \in Data : RemoveDataCall(data)
    \/ \E d \in Shifts : MovetCall(d)

SpecOLL == InitList /\ [][NextOLL]_vars

Sorted(q) == \A i \in 1..Len(q), j \in 1..Len(q) : i < j => q[i].t <= q[j].t
Was(op) == result.called /\ result.args[1] = op
\* q is l with the node at index p taken out
Without(q, l, p) == p \in 1..Len(l) /\ q = RemoveAt(l, p)

\* C24: after any sequence of insert, pop, remove, removeData and movet the
\* node times are non-decreasing from head to tail; insert places the new
\* node after all nodes with strictly smaller time; pop removes and returns
\* a node with minimal time, and raises EmptyList on an empty list, which
\* it leaves unchanged.
C24_OrderedList ==
    /\ Sorted(nextUpdates)
    /\ Was("insert") =>
          \E p \in 1..Len(nextUpdates) :
              /\ nextUpdates[p] = [t |-> result.args[2], data |-> result.args[3]]
              /\ Without(result.of, nextUpdates, p)
              /\ \A j \in 1..Len(nextUpdates) : nextUpdates[j].t < result.args[2] => j < p
    /\ (Was("pop") /\ result.of = <<>>) => (result.exc = "EmptyList" /\ nextUpdates = <<>>)
    /\ (Was("pop") /\ result.of # <<>>) =>
          /\ result.exc = "none"
          /\ \E p \in 1..Len(result.of) :
                /\ result.out = <<result.of[p].t, result.of[p].data>>
                /\ Without(nextUpdates, result.of, p)
                /\ \A j \in 1..Len(result.of) : result.of[p].t <= result.of[j].t

\* a node was inserted between two others, and a pop took the first of three nodes
C24_Witness ==
    /\ Was("pop") /\ Len(result.of) = 3 /\ result.out[1] < nextUpdates[1].t
    /\ nextUpdates[1].t < nextUpdates[2].t

C24_InsertWitness ==
    /\ Was("insert") /\ Len(nextUpdates) = 3
    /\ nextUpdates[2] = [t |-> result.args[2], data |-> result.args[3]]
    /\ nextUpdates[1].t < nextUpdates[2].t /\ nextUpdates[2].t < nextUpdates[3].t

\* C25: removeData(p) removes exactly one node, the earliest whose payload
\* is the object p itself, and leaves the other nodes and their order
\* unchanged; when no node holds p it raises ValueError and leaves the list
\* unchanged.
C25_RemoveDataByIdentity ==
    Was("removeData") =>
        IF \E i \in 1..Len(result.of) : result.of[i].data = result.args[2]
        THEN /\ result.exc = "none"
             /\ \E p \in 1..Len(result.of) :
                   /\ result.of[p].data = result.args[2]
                   /\ \A j \in 1..(p - 1) : result.of[j].data # result.args[2]
                   /\ Without(nextUpdates, result.of, p)
        ELSE result.exc = "ValueError" /\ nextUpdates = result.of

\* the payload was removed from behind an equal but different object, with a
\* second node holding the payload left in the list
C25_Witness ==
    /\ Was("removeData") /\ result.exc = "none" /\ Len(result.of) = 3
    /\ result.args[2] = "d2"
    /\ result.of[1].data = "d1" /\ result.of[2].data = "d2" /\ result.of[3].data = "d2"

\* no node holds the payload, but one holds an equal object
C25_MissingWitness ==
    /\ Was("removeData") /\ result.exc = "ValueError"
    /\ result.args[2] = "d2" /\ \E i \in 1..Len(result.of) : result.of[i].data = "d1"


(***************************************************************************)
(* The scenario of one careful Walker in front of the end of the track:    *)
(* TrackEnd B1 at the last index, Walker W1 two cells before it, heading   *)
(* for it with speed 1; an Event E1 and the run lengths partition the      *)
(* time.  (The walker never reads the cell of the TrackEnd at index 0;     *)
(* the queue holds the TrackEnd throughout, so run never finds it empty.)  *)
(***************************************************************************)
WalkerStart == TrackLen - 3
WalkerStop == TrackLen - 2

NextScenario ==
    \/ LoadBoundary("B1", TrackLen - 1)
    \/ Loaded("B1") /\ LoadWalker("W1", WalkerStart, 1)
    \/ \E r \in 0..MaxDelay : Loaded("W1") /\ LoadEvent("E1", r)
    \/ \E T \in RunTimes : Loaded("W1") /\ StartRun(T)
    \/ RunIteration

SpecScenario == Init /\ [][NextScenario]_vars

\* C26: in the scenario the walker is in its start cell until its first
\* step is due, one time unit after it was loaded, and from then on in the
\* next cell, in front of the TrackEnd, whatever the lengths of the runs.
C26_WalkerStopsAtEnd ==
    (Idle /\ Loaded("B1") /\ Loaded("W1")) =>
        LET at == IF time >= loadTime["W1"] + 1 THEN WalkerStop ELSE WalkerStart
        IN position["W1"] = at /\ CellsOf(track, "W1") = {at}


\* this step of run updates the Walker w
UpdateOf(w) == pc = "run" /\ running /\ nextUpdates # <<>> /\ Head(nextUpdates).data = w
\* the countdown of w at this update, after the time since its last update is taken off
Countdown(w) == untilStep[w] - (time' - lastUpdate[w])

\* C27: an update of a Walker whose countdown, less the time elapsed since
\* its last update, has not reached zero does not invoke step: the walker
\* keeps its position and its reduced countdown, and nothing is raised.
C27_StepOnlyWhenDue ==
    [][\A w \in Walkers :
          (UpdateOf(w) /\ Countdown(w) > 0) =>
              /\ exc' = "none"
              /\ position'[w] = position[w]
              /\ untilStep'[w] = Countdown(w)]_vars


(***************************************************************************)
(* Walkers with the stepping rules careful, pushy_soft, pushy_hard and     *)
(* pushy_train on a track without collision rules.                         *)
(***************************************************************************)
InitPush == InitWith({"careful", "pushy_soft", "pushy_hard", "pushy_train"}, {<<>>})

NextPush ==
    \/ \E w \in Walkers, p \in 0..(TrackLen - 1), d \in {-1, 1} :
          (w = "W2" => Loaded("W1")) /\ LoadWalker(w, p, d)
    \/ \E p \in 0..(TrackLen - 1) : Loaded("W1") /\ LoadBoundary("B1", p)
    \/ \E T \in {0, 1} : StartRun(T)
    \/ RunIteration
    \/ RunEmpty

SpecPush == InitPush /\ [][NextPush]_vars

\* the cell the walker w heads for, and the items of the cell k cells in front of it
TargetOf(w) == position[w] + direction[w]
Ahead(w, k) == TrackGet(track, position[w] + k * direction[w]).items
\* this step of run updates the Walker w, its step is due and its rule is r
StepOf(w, r) == UpdateOf(w) /\ Countdown(w) <= 0 /\ steppingrule[w] = r
Still == UNCHANGED <<track, position>>

\* C28: a careful walker whose step is due steps if and only if its target
\* cell is empty, and right after the step it is the sole occupant of its
\* new cell.
C28_CarefulSoleOccupant ==
    [][\A w \in Walkers :
          (StepOf(w, "careful") /\ InBounds(TargetOf(w))) =>
              IF Ahead(w, 1) = <<>>
              THEN position'[w] = TargetOf(w) /\ track'[TargetOf(w)].items = <<w>>
              ELSE Still]_vars

\* C29: pushy_train aborts if a cell of the train holds a TrackEnd;
\* otherwise its action completes, every agent of train cell k is in cell
\* k + direction afterwards with its position incremented once, and no agent
\* of the train is left in the front cell.
C29_TrainShifted ==
    [][\A w \in Walkers :
          StepOf(w, "pushy_train") =>
              LET k == TrainEnd(track, position[w], direction[w], 1)
              IN IF \E j \in 1..(k - 1) : HasTrackEnd([items |-> Ahead(w, j)])
                 THEN Still
                 ELSE /\ exc' # "IndexError"
                      /\ \A j \in 1..(k - 1) : \A i \in 1..Len(Ahead(w, j)) :
                            LET o == Ahead(w, j)[i]
                            IN /\ position'[o] = position[o] + direction[w]
                               /\ Contains(TrackGet(track', position[w] + (j + 1) * direction[w]).items, o)
                               /\ ~Contains(TrackGet(track', TargetOf(w)).items, o)]_vars

\* C30: after the step of a pushy_hard walker whose target cell holds no
\* TrackEnd, every agent that was in the target cell is in the cell behind
\* it with its position incremented by the direction of the pusher, and the
\* pusher is the only occupant of the former target cell; if the target
\* cell holds a TrackEnd nothing moves.
C30_PushHard ==
    [][\A w \in Walkers :
          (StepOf(w, "pushy_hard") /\ InBounds(TargetOf(w)) /\ InBounds(TargetOf(w) + direction[w])) =>
              IF HasTrackEnd([items |-> Ahead(w, 1)])
              THEN Still
              ELSE /\ \A i \in 1..Len(Ahead(w, 1)) :
                         LET o == Ahead(w, 1)[i]
                         IN /\ position'[o] = position[o] + direction[w]
                            /\ Contains(track'[TargetOf(w) + direction[w]].items, o)
                   /\ track'[TargetOf(w)].items = <<w>>]_vars


\* the walker o, turned into direction d, is permitted its step by its own rule
Permits(o, d) == SteppingRule(State, o, d, 1).kind = "list"

\* C31: after the step of a pushy_soft walker whose target cell holds only
\* walkers, each permitted the step by its own rule, every pushed walker is
\* one cell further in the pusher's direction (cell and position) with its
\* own direction as before, and the pusher has advanced by one; if a pushed
\* walker's rule returns None or the cell holds a non-walker nothing moves.
C31_PushSoft ==
    [][\A w \in Walkers :
          (StepOf(w, "pushy_soft") /\ InBounds(TargetOf(w)) /\ InBounds(TargetOf(w) + direction[w])) =>
              IF /\ AllWalkers([items |-> Ahead(w, 1)])
                 /\ \A i \in 1..Len(Ahead(w, 1)) : Permits(Ahead(w, 1)[i], direction[w])
              THEN /\ \A i \in 1..Len(Ahead(w, 1)) :
                         LET o == Ahead(w, 1)[i]
                         IN /\ position'[o] = position[o] + direction[w]
                            /\ Contains(track'[TargetOf(w) + direction[w]].items, o)
                            /\ direction'[o] = direction[o]
                   /\ position'[w] = TargetOf(w)
                   /\ Contains(track'[TargetOf(w)].items, w)
              ELSE Still]_vars


(***************************************************************************)
(* The evaluation of a stepping rule as the code runs it: pushy_soft sets  *)
(* the direction attribute of each walker it asks and sets it back in its  *)
(* finally clause.  Evaluated(s, r) is the state the evaluation leaves and *)
(* the value it returns.                                                   *)
(***************************************************************************)
Evaluated(s, r) == [s |-> s, r |-> r]

\* finally that does not set the direction back
KeepDirection(s, o, old) == s

\* finally: other_walker.direction = old_dir
RestoreDirection(s, o, old) == [s EXCEPT !.direction[o] = old]

RECURSIVE EvalRule(_, _, _)
RECURSIVE AskLoop(_, _, _, _, _)
\* the loop of pushy_soft over the walkers of the target cell
AskLoop(s, w, others, depth, acc) ==
    IF others = <<>> THEN Evaluated(s, RList(Append(acc, Act("shiftOthers", w))))
    ELSE LET o == Head(others)
             e == EvalRule([s EXCEPT !.direction[o] = s.direction[w]], o, depth + 1)
             s2 == RestoreDirection(e.s, o, s.direction[o])
         IN IF e.r.kind = "list" THEN AskLoop(s2, w, Tail(others), depth, acc \o e.r.actions)
            ELSE Evaluated(s2, e.r)

\* walker.steppingrule(sim)
EvalRule(s, w, depth) ==
    IF depth > Cardinality(Walkers) THEN Evaluated(s, RError)
    ELSE IF steppingrule[w] # "pushy_soft"
         THEN Evaluated(s, SteppingRule(s, w, s.direction[w], depth))
         ELSE LET cell == TrackGet(s.track, s.position[w] + s.direction[w])
              IN IF ~AllWalkers(cell) THEN Evaluated(s, RNone)
                 ELSE AskLoop(s, w, cell.items, depth, <<>>)

\* the mark a call of w.steppingrule(sim) by the user leaves in the trace
Asked(w, r) ==
    [op |-> "ask", rule |-> steppingrule[w], key |-> <<>>, a |-> w, b |-> NoObject,
     made |-> IF r.kind = "list" THEN r.actions ELSE <<Act(r.kind, NoObject)>>]

\* w.steppingrule(sim), nothing pending
AskRule(w) ==
    /\ Idle /\ Loaded(w) /\ nextActions = <<>>
    /\ Call([EvalRule(State, w, 0).s EXCEPT !.trace = <<Asked(w, EvalRule(State, w, 0).r)>>])
    /\ UNCHANGED <<loadTime, delay>>

NextRules ==
    \/ \E p \in 0..1, d \in {-1, 1} : LoadWalker("W1", p, d)
    \/ \E p \in 1..2, d \in {-1, 1} : Loaded("B1") /\ LoadWalker("W2", p, d)
    \/ Loaded("W1") /\ LoadBoundary("B1", TrackLen - 1)
    \/ StartRun(1)
    \/ RunIteration
    \/ RunEmpty
    \/ AskRule("W1")
    \/ \E y \in Particles \ {"W1"} : Collide("W1", y)

SpecRules == InitTrack /\ [][NextRules]_vars

\* this step is a call of a stepping rule or of newCollision by the user
Evaluation ==
    /\ Idle /\ nextActions = <<>>
    /\ trace' # <<>> /\ trace'[1].op \in {"ask", "collide"}
    /\ pc' = pc /\ loadTime' = loadTime

\* C32: evaluating a stepping rule or a collision rule, and newCollision
\* itself, leaves the track, the update queue and every agent's position
\* and direction unchanged.
C32_EvaluationPure ==
    [][Evaluation => UNCHANGED <<track, nextUpdates, position, direction>>]_vars

\* pushy_soft has asked a walker that heads the other way, and was permitted
C32_Witness ==
    /\ trace # <<>> /\ trace[1].op = "ask" /\ trace[1].rule = "pushy_soft"
    /\ Len(trace[1].made) = 1 /\ trace[1].made[1] = Act("shiftOthers", "W1")
    /\ Contains(TrackGet(track, position["W1"] + direction["W1"]).items, "W2")
    /\ direction["W2"] # direction["W1"]


\* the walker w is in the cell at its recorded position
InOwnCell(w) == Contains(TrackGet(track, position[w]).items, w)

\* C33: when a walker whose stepping rule permits the step is not in the
\* cell at its recorded position, step raises 'left the track' if the
\* position is outside [0, L) and 'missing on the track' otherwise, and the
\* position of the walker is unchanged.
C33_StepRaises ==
    [][\A w \in Walkers :
          (UpdateOf(w) /\ Permits(w, direction[w]) /\ ~InOwnCell(w)) =>
              /\ exc' = IF InBounds(position[w]) THEN "RuntimeError: missing on the track"
                        ELSE "RuntimeError: left the track"
              /\ position'[w] = position[w]]_vars


(***************************************************************************)
(* A MultiHeadParticle M1 with the two Walkers as its heads, on            *)
(* neighbouring cells.                                                     *)
(***************************************************************************)
\* sim.load(MultiHeadParticle([W1(position=p), W2(position=p + 1)]))
LoadComposite(p, d) ==
    LET s0 == [State EXCEPT !.position["W1"] = p, !.position["W2"] = p + 1,
                            !.direction["W1"] = d, !.direction["W2"] = d,
                            !.untilStep["W1"] = 1, !.untilStep["W2"] = 1]
    IN /\ Idle /\ ~Loaded("W1") /\ ~Loaded("W2")
       /\ Call(MultiHeadLoad(s0, "M1"))
       /\ loadTime' = [loadTime EXCEPT !["W1"] = time,
                                       !["W2"] = IF Ok(LoadHeads(ReporterRegister(s0, "M1"), <<"W1">>))
                                                 THEN time ELSE @]
       /\ UNCHANGED delay

\* sim.unload(M1)
UnloadComposite ==
    /\ Idle /\ Loaded("W1")
    /\ Call(LoadUnloadEvent(State, "M1"))
    /\ UNCHANGED <<loadTime, delay>>

NextMulti ==
    \/ \E p \in 0..(TrackLen - 2), d \in {-1, 1} : LoadComposite(p, d)
    \/ UnloadComposite
    \/ \E r \in 0..MaxDelay : LoadEvent("E1", r)
    \/ \E T \in RunTimes : StartRun(T)
    \/ RunIteration
    \/ RunEmpty

SpecMulti == Init /\ [][NextMulti]_vars

\* the composite was loaded and its unload was not asked for
CompositeLoaded == Loaded("W1") /\ nextU = 1
HeadSet == {Heads[i] : i \in 1..Len(Heads)}

\* C34: while a multi-head composite is loaded, the composite is registered
\* with the reporter and none of its heads is, every head is on the track
\* and in the update queue, and every report made holds the tuple of head
\* positions of the composite and no snapshot of a head.
C34_OnlyCompositeReports ==
    (Idle /\ CompositeLoaded) =>
        /\ Contains(reportables, "M1")
        /\ \A h \in HeadSet :
              /\ ~Contains(reportables, h)
              /\ CellsOf(track, h) = {position[h]}
              /\ OLLHasData(nextUpdates, h)
        /\ \A k \in 1..Len(out) : \A i \in 1..Len(out[k].snaps) :
              out[k].snaps[i][1] = "MultiHeadParticle"


(***************************************************************************)
(* SpecLife: a FiniteLife whose lifetime is longer than the tolerance of   *)
(* its update, next to an Event that keeps the queue busy, under runs of   *)
(* several lengths.                                                        *)
(***************************************************************************)
Lifetimes == {Tolerance + 1, Tolerance + 2}
LifeRunTimes == {1, Tolerance + 1, Tolerance + 2}

NextLife ==
    \/ \E l \in Lifetimes : LoadFiniteLife("F1", l)
    \/ \E e \in UserEvents, r \in {0, 1, Tolerance + 2} : LoadEvent(e, r)
    \/ \E T \in LifeRunTimes : StartRun(T)
    \/ RunIteration
    \/ RunEmpty

SpecLife == Init /\ [][NextLife]_vars

\* the simulation has reached the end of the lifetime of f
Expired(f) == Loaded(f) /\ time >= loadTime[f] + delay[f]
\* the Events made for the unload of f
UnloadEventsOf(f) == {UnloadSlots[i] : i \in {k \in 1..(nextU - 1) : target[UnloadSlots[k]] = f}}

\* C35: once the simulation has been run to the end of the lifetime of a
\* FiniteLife, however the run was split, an Event of its unload has been
\* loaded and has run, and the agent is not in the queue; the update of
\* the agent never puts it back into the queue.
C35_UnloadedAtExpiry ==
    /\ [](\A f \in FiniteLives :
            (Idle /\ exc = "none" /\ Expired(f)) =>
                /\ \E u \in UnloadEventsOf(f) : ~OLLHasData(nextUpdates, u)
                /\ ~OLLHasData(nextUpdates, f))
    /\ [][\A f \in FiniteLives : UpdateOf(f) => ~OLLHasData(nextUpdates', f)]_vars

\* the second half of C35 alone
NoRequeue == [][\A f \in FiniteLives : UpdateOf(f) => ~OLLHasData(nextUpdates', f)]_vars
\* a run to the end of the lifetime in one piece unloads the agent
OnePiece ==
    \A f \in FiniteLives :
        (Idle /\ exc = "none" /\ Expired(f) /\ runs = 1) =>
            \E u \in UnloadEventsOf(f) : ~OLLHasData(nextUpdates, u)


(***************************************************************************)
(* Simulation.run as a function of the state it starts in: the loop of     *)
(* RunIteration up to its end, with deadline T.                            *)
(***************************************************************************)
Iterate(s, T) ==
    LET node == Head(s.q)
    IN AndThen(Update([s EXCEPT !.q = Tail(@), !.time = ClampTime(node.t, T)], node.data),
               RunReport)

RECURSIVE RunLoop(_, _)
RunLoop(s, T) ==
    IF s.q = <<>> THEN s
    ELSE LET s1 == Iterate(s, T)
         IN IF Ok(s1) /\ StillRunning(Head(s.q).t, T) THEN RunLoop(s1, T) ELSE s1

\* sim.run(T)
Run(s, T) == RunLoop([s EXCEPT !.exc = "none"], T + s.time)

\* what the partition of a run is said to keep
Outcome(s) ==
    [time |-> s.time, track |-> s.track, position |-> s.position,
     direction |-> s.direction, q |-> s.q]

\* the loop of Run is the loop of the iterations of run
RunAgrees ==
    [][RunIteration =>
          RunLoop(State, Tend) = IF pc' = "run" THEN RunLoop(State', Tend) ELSE State']_vars

SplitTimes == 0..(Tolerance + 2)

\* the simulation as configured, before its first run
Configured == Idle /\ runs = 0 /\ exc = "none"

\* C36: for a configuration, run(T1) followed by run(T2) leaves the same
\* time, track, positions, directions and queue as run(T1 + T2).
C36_RunPartition ==
    Configured =>
        \A T1, T2 \in SplitTimes :
            (Run(Run(State, T1), T2).exc = "none" /\ Run(State, T1 + T2).exc = "none")
                => Outcome(Run(Run(State, T1), T2)) = Outcome(Run(State, T1 + T2))


(***************************************************************************)
(* SpecEnds: Simulation(L) with markEnds=True and walkers of every         *)
(* stepping rule loaded between the ends.  The constructor loads           *)
(* TrackEnd(0) first; on the cells of a new track this load raises, so     *)
(* that TrackEnd(L-1) is never made (EndsRaise).                           *)
(***************************************************************************)
InitEnds ==
    InitWith({"careful", "transparent", "pushy_soft", "pushy_hard", "pushy_train"}, {<<>>})

\* self.load(TrackEnd(0)) of Simulation.__init__
MarkEnds == LoadBoundary("B1", 0)

NextEnds ==
    \/ MarkEnds
    \/ \E w \in Walkers, p \in 1..(TrackLen - 2), d \in {-1, 1} :
          Loaded("B1") /\ (w = "W2" => Loaded("W1")) /\ LoadWalker(w, p, d)
    \/ \E T \in RunTimes : Loaded("B1") /\ StartRun(T)
    \/ RunIteration

SpecEnds == InitEnds /\ [][NextEnds]_vars

\* the first load of the constructor raises
EndsRaise == [][MarkEnds => exc' = "AttributeError"]_vars

\* C37: in a simulation made with markEnds=True whose walkers were loaded
\* between the ends, every walker is at a position of the track, the
\* TrackEnd is in its end cell, and no walker has left the track.
C37_Containment ==
    Loaded("B1") =>
        /\ \A w \in Walkers : Loaded(w) => InBounds(position[w])
        /\ CellsOf(track, "B1") = {position["B1"]}
        /\ exc # "RuntimeError: left the track"



\* C38: run(T) called at time t ends at time t + T whenever it popped an
\* entry beyond the deadline t + T; when it finds the queue empty it
\* returns without an exception and leaves sim.time at the time of the
\* last entry it processed, which is the time of the call if there was none.
C38_RunReturn ==
    [][/\ \A T \in RunTimes : StartRun(T) => (Tend' = time + T /\ time' = time)
       /\ (RunIteration /\ Head(nextUpdates).t > Tend) => (pc' = "idle" /\ time' = Tend)
       /\ RunEmpty =>
            /\ pc' = "idle" /\ exc' = "none"
            /\ time' = time
            /\ Iterated => (time = lastUpd.t /\ lastUpd.t <= Tend)]_vars

\* a run that processed an entry before its deadline and then found the queue empty
C38_Witness ==
    /\ Idle /\ runs > 0 /\ running /\ exc = "none"
    /\ nextUpdates = <<>>
    /\ Iterated /\ time = lastUpd.t /\ time > 0 /\ time < Tend

\* a run that ended with an entry popped beyond its deadline
C38_DeadlineWitness ==
    Idle /\ ~running /\ Iterated /\ lastUpd.t > Tend /\ time = Tend /\ exc = "none" /\ runs > 1



(***************************************************************************)
(* SpecCore: the kinds of the library together: two Walkers of speed 1, a  *)
(* TrackEnd, a FiniteLife, an Event and either reporter, the time-based    *)
(* one with a period below or above its tolerance, loaded in this order    *)
(* between the runs.  LiveCore adds that the loop of run, once entered,    *)
(* takes its next iteration: run is sequential code that nothing suspends. *)
(***************************************************************************)
CorePeriods == {1, Offset + 1}

InitCore == InitSim({"careful", "pushy_hard"}, {<<>>}, {NoDt} \cup CorePeriods)

NextCore ==
    \/ \E d \in {-1, 1} : LoadWalker("W1", TrackLen - 2, d)
    \/ \E p \in {0, TrackLen - 1} : Loaded("W1") /\ LoadBoundary("B1", p)
    \/ \E d \in {-1, 1} : Loaded("B1") /\ LoadWalker("W2", TrackLen - 2, d)
    \/ \E l \in {1, Tolerance + 1} : Loaded("W2") /\ LoadFiniteLife("F1", l)
    \/ \E r \in {0, MaxDelay} : Loaded("F1") /\ LoadEvent("E1", r)
    \/ \E T \in RunTimes : StartRun(T)
    \/ RunIteration
    \/ RunEmpty

SpecCore == InitCore /\ [][NextCore]_vars

\* ENABLED <<RunIteration>>_vars as a predicate of the state: the loop is at
\* an entry of the queue, and its iteration changes the state
IterationEnabled ==
    /\ pc = "run" /\ running /\ nextUpdates # <<>>
    /\ LET node == Head(nextUpdates)
           s == Iterate(State, Tend)
       IN /\ s.exc # "BOUND"
          /\ \/ s # State
             \/ ~(Ok(s) /\ StillRunning(node.t, Tend))
             \/ lastUpd # [t |-> node.t, data |-> node.data, at |-> s.time, Tend |-> Tend,
                           updated |-> Updates(node.t, Tend)]

\* an iteration is taken only where IterationEnabled holds
EnabledWhenTaken == [][RunIteration => IterationEnabled]_vars

\* weak fairness of RunIteration, with its ENABLED written as IterationEnabled,
\* and of RunEmpty
LiveCore ==
    /\ SpecCore
    /\ ([]<>(~IterationEnabled) \/ []<><<RunIteration>>_vars)
    /\ WF_vars(RunEmpty)

\* C39: a call of run(T) on a simulation of the kinds of the library
\* returns or raises: its loop makes finitely many updates.
C39_RunTerminates == (pc = "run") ~> (pc = "idle")

\* a run that ended at its deadline with the update of a Walker, which
\* queued itself again
C39_Witness ==
    /\ Idle /\ ~running /\ exc = "none" /\ runs > 0
    /\ Iterated /\ lastUpd.data \in Walkers
    /\ OLLHasData(nextUpdates, lastUpd.data)
    /\ time = Tend /\ time > 1



(***************************************************************************)
(* SpecGen: resample step by step.  ResampleStart is the call up to the    *)
(* for loop, ResampleNext one turn of the loop, which takes a target time  *)
(* from dt_gen, and ResampleEnd the statements after the loop.  While the  *)
(* loop runs, result holds its local variables: the output so far, cur of  *)
(* dt_gen, the resolved stop and i_report.  Steps of 0 and below pass the  *)
(* validation of the arguments.  The model follows a loop for MaxEntries   *)
(* entries, more than any loop with a positive step makes here (CapLoose). *)
(***************************************************************************)
GenSteps == {-1, 0, 2}
GenRunTimes == {1, Offset}
MaxEntries == 2 * MaxRuns + 2

Looping == result.called /\ result.exc = "loop"

\* self.out[0] and self.out[-1] raise IndexError on an empty out
ResampleStart(start, stop, step) ==
    /\ Idle /\ ~result.called
    /\ result' =
          IF out = <<>> /\ (start = NoneArg \/ stop = NoneArg)
          THEN [called |-> TRUE, exc |-> "IndexError", out |-> <<>>,
                args |-> <<start, stop, step>>, of |-> out]
          ELSE [called |-> TRUE, exc |-> "loop", out |-> <<>>,
                args |-> <<start, stop, step>>, of |-> out,
                cur |-> IF start = NoneArg THEN out[1].time ELSE start,
                stop |-> IF stop = NoneArg THEN out[Len(out)].time + step ELSE stop,
                i |-> -1]
    /\ UNCHANGED <<SimVars, heap, handles>>

\* dt_gen yields cur, and the body of the for loop; self.out[i_report]
\* raises IndexError on an empty out
ResampleNext ==
    /\ Looping /\ result.cur < result.stop
    /\ Len(result.out) < MaxEntries
    /\ result' =
          IF result.of = <<>>
          THEN [called |-> TRUE, exc |-> "IndexError", out |-> <<>>,
                args |-> result.args, of |-> result.of]
          ELSE LET i == Advance(result.of, result.i, result.cur)
               IN [result EXCEPT !.i = i,
                                 !.out = Append(@, [PyIndex(result.of, i) EXCEPT !.time = result.cur]),
                                 !.cur = @ + result.args[3]]
    /\ UNCHANGED <<SimVars, heap, handles>>

\* dt_gen is exhausted; timebased.out[-1] raises IndexError on an empty output
ResampleEnd ==
    /\ Looping /\ ~(result.cur < result.stop)
    /\ result' = [called |-> TRUE,
                  exc |-> IF result.out = <<>> THEN "IndexError" ELSE "none",
                  out |-> result.out, args |-> result.args, of |-> result.of]
    /\ UNCHANGED <<SimVars, heap, handles>>

NextGen ==
    \/ \E r \in {0, MaxDelay} : ~Looping /\ LoadEvent("E1", r)
    \/ ~Looping /\ LoadBoundary("B1", 0)
    \/ \E T \in GenRunTimes : ~Looping /\ StartRun(T)
    \/ RunIteration
    \/ RunEmpty
    \/ \E start \in ResampleStarts, stop \in ResampleStops, step \in GenSteps :
          ResampleStart(start, stop, step)
    \/ ResampleNext
    \/ ResampleEnd

SpecGen == InitReport /\ [][NextGen]_vars

\* the loop taken step by step returns what Resample returns
GenAgrees ==
    [][ResampleEnd => result' = Resample(result.of, result.args[1], result.args[2], result.args[3])]_vars

\* a loop with a positive step ends before the model stops following it
CapLoose ==
    (Looping /\ result.args[3] > 0 /\ result.cur < result.stop) => Len(result.out) < MaxEntries

\* C40: whatever discretization passed the validation, also one with a step
\* of 0 or below, the loop of resample ends: every target time dt_gen
\* yields brings cur closer to stop, so that the output is finite.
C40_ResampleTerminates ==
    [][(ResampleNext /\ result'.exc = "loop") =>
          result.stop - result'.cur < result.stop - result.cur]_vars

\* with a positive step the loop ends
PositiveStepEnds ==
    [][(ResampleNext /\ result'.exc = "loop" /\ result.args[3] > 0) =>
          result.stop - result'.cur < result.stop - result.cur]_vars

=============================================================================
